---- MODULE Spec2Model ----
(***************************************************************************)
(* MiniC AST-to-linear-IR lowering (src/ir/Generator/IRGenerator.cpp).     *)
(*                                                                         *)
(* The lowering is a recursive descent over the AST.  Every handler        *)
(* ir_xxx(node) of the generator is an operator ir_xxx(node, M) here: M    *)
(* is the mutable state the C++ handlers share (the Module with its        *)
(* function registry, current function, scope stack), and the result       *)
(* record carries what the handler leaves behind: its boolean return       *)
(* value (ok), the state M at return, node->blockInsts (insts) and         *)
(* node->val (val).  One action, Run, is IRGenerator::run().  The          *)
(* produced instruction streams are then executed by a small-step          *)
(* interpreter (Start, Step) so that statements about what the emitted     *)
(* code computes can be checked.                                           *)
(***************************************************************************)
EXTENDS Integers, Sequences, FiniteSets, TLC

VARIABLES tree, prog, pc, M, stack, executed, retval

vars == <<tree, prog, pc, M, stack, executed, retval>>

(***************************************************************************)
(* Bounds of the model.                                                    *)
(***************************************************************************)
\* integer literals of the generated programs are 0..MaxVal
MaxVal == 2
\* deepest nesting of while loops in the generated loop programs
LoopDepth == 2
\* the interpreter stops after this many instructions
MaxSteps == 120

(***************************************************************************)
(* Values (Value.h family): constants, locals, globals, formal parameters, *)
(* instruction results, labels.  Identity of a C++ object is its id.       *)
(***************************************************************************)
NoVal == [k |-> "none", id |-> 0, ty |-> "void", name |-> ""]

ConstInt(n) == [k |-> "const", id |-> n, ty |-> "int", name |-> ""]

InstVal(id, ty) == [k |-> "inst", id |-> id, ty |-> ty, name |-> ""]

LabelVal(id) == [k |-> "label", id |-> id, ty |-> "void", name |-> ""]

FormalParam(i, ty, name) == [k |-> "param", id |-> i, ty |-> ty, name |-> name]

(***************************************************************************)
(* Instructions.  One record shape for all of them; `by` names the handler *)
(* whose `new XxxInstruction` created the object.                          *)
(***************************************************************************)
Inst(op, by) ==
    [op |-> op, by |-> by, id |-> 0, bop |-> "", x |-> NoVal, y |-> NoVal,
     ty |-> "void", t1 |-> NoVal, t2 |-> NoVal, fn |-> "", args |-> <<>>]

NoInst == Inst("none", "")

EntryInstruction(by) == Inst("entry", by)

ExitInstruction(retValue, by) == [Inst("exit", by) EXCEPT !.x = retValue]

LabelInstruction(id, by) == [Inst("label", by) EXCEPT !.id = id]

BinaryInstruction(id, bop, x, y, ty, by) ==
    [Inst("bin", by) EXCEPT !.id = id, !.bop = bop, !.x = x, !.y = y, !.ty = ty]

MoveInstruction(dst, src, by) == [Inst("move", by) EXCEPT !.x = dst, !.y = src]

GotoInstruction(target, by) == [Inst("goto", by) EXCEPT !.t1 = target]

CondGotoInstruction(cond, t, f, by) ==
    [Inst("cgoto", by) EXCEPT !.x = cond, !.t1 = t, !.t2 = f]

FuncCallInstruction(id, fn, args, ty, by) ==
    [Inst("call", by) EXCEPT !.id = id, !.fn = fn, !.args = args, !.ty = ty]

(***************************************************************************)
(* AST nodes (ast_node): operator tag, ordered sons, payload.              *)
(***************************************************************************)
\* a uint32_t is kept as its two 16-bit halves <<high, low>>
Half == 2^16

\* the uint32_t of a number in 0..2^31-1
U32(n) == <<n \div Half, n % Half>>

Node(op, sons) ==
    [op |-> op, sons |-> sons, name |-> "", ival |-> U32(0), ty |-> "", needScope |-> TRUE]

Lit(n) == [Node("uint", <<>>) EXCEPT !.ival = U32(n)]

Var(x) == [Node("var", <<>>) EXCEPT !.name = x]

TypeNode(t) == [Node("type", <<>>) EXCEPT !.ty = t]

Bin(op, l, r) == Node(op, <<l, r>>)

Neg(e) == Node("neg", <<e>>)

Not(e) == Node("not", <<e>>)

Assign(x, e) == Node("assign", <<Var(x), e>>)

Ret(e) == Node("return", <<e>>)

Block(stmts) == Node("block", stmts)

VarDecl(x) == Node("var_decl", <<TypeNode("int"), Var(x)>>)

Decl(x) == Node("decl_stmt", <<VarDecl(x)>>)

Decl2(x, y) == Node("decl_stmt", <<VarDecl(x), VarDecl(y)>>)

If(c, s) == Node("if", <<c, s>>)

IfElse(c, s1, s2) == Node("if_else", <<c, s1, s2>>)

While(c, s) == Node("while", <<c, s>>)

Break == Node("break", <<>>)

Continue == Node("continue", <<>>)

Call(f, args) == Node("call", <<Var(f), Node("real_params", args)>>)

Param(x) == Node("formal_param", <<TypeNode("int"), Var(x)>>)

Params(xs) == Node("formal_params", [i \in 1..Len(xs) |-> Param(xs[i])])

FuncDef(t, f, xs, stmts) ==
    Node("func_def", <<TypeNode(t), Var(f), Params(xs), Block(stmts)>>)

CompileUnit(defs) == Node("compile_unit", defs)


(***************************************************************************)
(* Module / Function state shared by the handlers.                         *)
(*   funcs   the function registry, in registration order                  *)
(*   cur     index of the current function, 0 for nullptr                  *)
(*   scopes  the scope stack; scopes[1] is the global frame                *)
(*   nid     the next unused object id                                     *)
(*   log     history of ir_visit_ast_node calls (enter / return events)    *)
(***************************************************************************)
M0 == [funcs |-> <<>>, cur |-> 0, scopes |-> << <<>> >>, nid |-> 1, log |-> <<>>]

NewFunc(name, retType, params) ==
    [name |-> name, retType |-> retType, params |-> params, code |-> <<>>,
     exitLabel |-> NoVal, retValue |-> NoVal,
     breakLabel |-> NoVal, continueLabel |-> NoVal,
     boolCheckInst |-> NoInst, moveInst |-> NoInst,
     existFuncCall |-> FALSE, maxFuncCallArgCnt |-> 0]

\* Module::findFunction: index of the registered function, 0 when absent
findFunction(S, name) ==
    LET hit == {i \in 1..Len(S.funcs) : S.funcs[i].name = name}
    IN IF hit = {} THEN 0 ELSE CHOOSE i \in hit : TRUE

\* Module::newFunction: refuses a name that is already registered
newFunction(S, name, retType, params) ==
    IF findFunction(S, name) # 0
    THEN [M |-> S, f |-> 0]
    ELSE [M |-> [S EXCEPT !.funcs = Append(@, NewFunc(name, retType, params))],
          f |-> Len(S.funcs) + 1]

enterScope(S) == [S EXCEPT !.scopes = Append(@, <<>>)]

leaveScope(S) == [S EXCEPT !.scopes = SubSeq(@, 1, Len(@) - 1)]

FindInFrame(frame, name) ==
    LET hit == {i \in 1..Len(frame) : frame[i].name = name}
    IN IF hit = {} THEN NoVal ELSE frame[CHOOSE i \in hit : TRUE]

\* Module::findVarValue: innermost frame first
findVarValue(S, name) ==
    LET hit == {d \in 1..Len(S.scopes) : FindInFrame(S.scopes[d], name) # NoVal}
    IN IF hit = {} THEN NoVal
       ELSE FindInFrame(S.scopes[CHOOSE d \in hit : \A e \in hit : e <= d], name)

\* Module::newVarValue: a fresh local (global outside functions); a named one
\* is declared in the innermost frame and refused when already declared there
newVarValue(S, ty, name) ==
    IF name # "" /\ FindInFrame(S.scopes[Len(S.scopes)], name) # NoVal
    THEN [M |-> S, val |-> NoVal]
    ELSE IF name = "" /\ S.cur = 0
    THEN [M |-> S, val |-> NoVal]
    ELSE LET v == [k |-> IF S.cur = 0 THEN "global" ELSE "local",
                   id |-> S.nid, ty |-> ty, name |-> name]
             S1 == [S EXCEPT !.nid = @ + 1]
         IN [M |-> IF name = "" THEN S1
                   ELSE [S1 EXCEPT !.scopes[Len(S.scopes)] = Append(@, v)],
             val |-> v]

MaxInt32 == 2147483647

MinInt32 == 0 - MaxInt32 - 1

\* (int32_t) of a uint32_t: the same 32 bits read as two's complement
ToInt32(u) ==
    IF u[1] >= Half \div 2 THEN (u[1] - Half) * Half + u[2] ELSE u[1] * Half + u[2]

\* (uint32_t) of an int32_t
ToUint32(n) == <<(n \div Half) % Half, n % Half>>

newConstInt(n) == ConstInt(n)

(***************************************************************************)
(* What a handler leaves behind.                                           *)
(***************************************************************************)
Ok(S, insts, val) == [ok |-> TRUE, M |-> S, insts |-> insts, val |-> val]

Fail(S) == [ok |-> FALSE, M |-> S, insts |-> <<>>, val |-> NoVal]

\* the ambient context: current function, scope depth, its loop labels
Ctx(S) ==
    [cur |-> S.cur, depth |-> Len(S.scopes),
     brk |-> IF S.cur = 0 THEN NoVal ELSE S.funcs[S.cur].breakLabel,
     cont |-> IF S.cur = 0 THEN NoVal ELSE S.funcs[S.cur].continueLabel]

Event(ev, node, ok, c0, S) ==
    [ev |-> ev, op |-> node.op, name |-> node.name, ok |-> ok, ctx0 |-> c0, ctx |-> Ctx(S),
     known |-> {S.funcs[f].name : f \in 1..Len(S.funcs)},
     pending |-> \E f \in 1..Len(S.funcs) :
                    S.funcs[f].boolCheckInst # NoInst \/ S.funcs[f].moveInst # NoInst]

RECURSIVE ir_visit_ast_node(_, _)

(***************************************************************************)
(* Leaves                                                                  *)
(***************************************************************************)
ir_leaf_node_uint(node, S) == Ok(S, <<>>, newConstInt(ToInt32(node.ival)))

ir_leaf_node_type(node, S) == Ok(S, <<>>, NoVal)

IsParamName(S, name) ==
    S.cur # 0 /\ \E i \in 1..Len(S.funcs[S.cur].params) : S.funcs[S.cur].params[i].name = name

\* ir_leaf_node_var_id as in the disabled lines 1666-1678: an unresolved name is
\* not an error
ir_leaf_node_var_id_lenient(node, S) ==
    Ok(S, <<>>, findVarValue(S, node.name))

ir_leaf_node_var_id(node, S) ==
    IF node.name = "" THEN Fail(S)
    ELSE LET val == findVarValue(S, node.name)
             again == IF val = NoVal /\ IsParamName(S, node.name)
                      THEN findVarValue(S, node.name) ELSE val
         IN IF again = NoVal THEN Fail(S) ELSE Ok(S, <<>>, again)

(***************************************************************************)
(* Arithmetic: left operand, right operand, one Binary instruction.        *)
(* ir_add and ir_mul also refuse an operand without a value.               *)
(***************************************************************************)
\* the arithmetic handlers lowering the right operand first
BinaryArith_right_first(node, S, bop, needVal, by) ==
    LET right == ir_visit_ast_node(node.sons[2], S)
    IN IF ~right.ok \/ (needVal /\ right.val = NoVal) THEN Fail(right.M)
       ELSE LET left == ir_visit_ast_node(node.sons[1], right.M)
            IN IF ~left.ok \/ (needVal /\ left.val = NoVal) THEN Fail(left.M)
               ELSE LET id == left.M.nid
                        inst == BinaryInstruction(id, bop, left.val, right.val, "int", by)
                    IN Ok([left.M EXCEPT !.nid = @ + 1],
                          right.insts \o left.insts \o <<inst>>,
                          InstVal(id, "int"))

BinaryArith(node, S, bop, needVal, by) ==
    LET left == ir_visit_ast_node(node.sons[1], S)
    IN IF ~left.ok \/ (needVal /\ left.val = NoVal) THEN Fail(left.M)
       ELSE LET right == ir_visit_ast_node(node.sons[2], left.M)
            IN IF ~right.ok \/ (needVal /\ right.val = NoVal) THEN Fail(right.M)
               ELSE LET id == right.M.nid
                        inst == BinaryInstruction(id, bop, left.val, right.val, "int", by)
                    IN Ok([right.M EXCEPT !.nid = @ + 1],
                          left.insts \o right.insts \o <<inst>>,
                          InstVal(id, "int"))

ir_add(node, S) == BinaryArith(node, S, "add", TRUE, "ir_add")

ir_sub(node, S) == BinaryArith(node, S, "sub", FALSE, "ir_sub")

ir_mul(node, S) ==
    IF Len(node.sons) < 2 THEN Fail(S) ELSE BinaryArith(node, S, "mul", TRUE, "ir_mul")

ir_div(node, S) == BinaryArith(node, S, "div", FALSE, "ir_div")

ir_mod(node, S) == BinaryArith(node, S, "mod", FALSE, "ir_mod")

ir_neg(node, S) ==
    LET operand == ir_visit_ast_node(node.sons[1], S)
    IN IF ~operand.ok THEN Fail(operand.M)
       ELSE LET id == operand.M.nid
                negInst == BinaryInstruction(id, "neg", operand.val, NoVal, "int", "ir_neg")
            IN Ok([operand.M EXCEPT !.nid = @ + 1],
                  operand.insts \o <<negInst>>, InstVal(id, "int"))

(***************************************************************************)
(* Relational operators: operands, a Bool temporary, the comparison, and a *)
(* Move of the comparison into the temporary.                              *)
(***************************************************************************)
\* the comparison handlers with an Int32 result temporary, as ir_logic_not
\* has (line 1312)
Relational_int_result(node, S, bop, by) ==
    LET left_node == ir_visit_ast_node(node.sons[1], S)
    IN IF ~left_node.ok THEN Fail(left_node.M)
       ELSE LET right_node == ir_visit_ast_node(node.sons[2], left_node.M)
            IN IF ~right_node.ok THEN Fail(right_node.M)
               ELSE IF left_node.val = NoVal \/ right_node.val = NoVal
                       \/ right_node.M.cur = 0
               THEN Fail(right_node.M)
               ELSE LET r == newVarValue(right_node.M, "int", "")
                        id == r.M.nid
                        cmp == BinaryInstruction(id, bop, left_node.val, right_node.val, "bool", by)
                    IN Ok([r.M EXCEPT !.nid = @ + 1],
                          left_node.insts \o right_node.insts
                              \o <<cmp, MoveInstruction(r.val, InstVal(id, "bool"), by)>>,
                          r.val)

Relational(node, S, bop, by) ==
    LET left_node == ir_visit_ast_node(node.sons[1], S)
    IN IF ~left_node.ok THEN Fail(left_node.M)
       ELSE LET right_node == ir_visit_ast_node(node.sons[2], left_node.M)
            IN IF ~right_node.ok THEN Fail(right_node.M)
               ELSE IF left_node.val = NoVal \/ right_node.val = NoVal
                       \/ right_node.M.cur = 0
               THEN Fail(right_node.M)
               ELSE LET r == newVarValue(right_node.M, "bool", "")
                        id == r.M.nid
                        cmp == BinaryInstruction(id, bop, left_node.val, right_node.val, "bool", by)
                    IN Ok([r.M EXCEPT !.nid = @ + 1],
                          left_node.insts \o right_node.insts
                              \o <<cmp, MoveInstruction(r.val, InstVal(id, "bool"), by)>>,
                          r.val)

\* ir_lt emitting the comparison of ir_le
ir_lt_as_le(node, S) == Relational(node, S, "le", "ir_lt")

ir_lt(node, S) == Relational(node, S, "lt", "ir_lt")

ir_gt(node, S) == Relational(node, S, "gt", "ir_gt")

ir_le(node, S) == Relational(node, S, "le", "ir_le")

ir_ge(node, S) == Relational(node, S, "ge", "ir_ge")

ir_eq(node, S) == Relational(node, S, "eq", "ir_eq")

ir_ne(node, S) == Relational(node, S, "ne", "ir_ne")


(***************************************************************************)
(* int_to_bool: a Bool value is used as it is; any other value is compared *)
(* with 0 and the comparison and its Move are parked in the function's     *)
(* extra data for the caller to append.                                    *)
(***************************************************************************)
int_to_bool(val, S) ==
    IF val = NoVal \/ S.cur = 0 THEN [ok |-> FALSE, M |-> S, bool_val |-> NoVal]
    ELSE IF val.ty = "bool" THEN [ok |-> TRUE, M |-> S, bool_val |-> val]
    ELSE LET r == newVarValue(S, "bool", "")
             id == r.M.nid
             boolCheck == BinaryInstruction(id, "ne", val, newConstInt(0), "bool", "int_to_bool")
             moveInst == MoveInstruction(r.val, InstVal(id, "bool"), "int_to_bool")
         IN [ok |-> TRUE,
             M |-> [r.M EXCEPT !.nid = @ + 1,
                               !.funcs[S.cur].boolCheckInst = boolCheck,
                               !.funcs[S.cur].moveInst = moveInst],
             bool_val |-> r.val]

\* the caller's part without lines 1183-1184 and 1257-1258: the slot stays filled
TakeBoolCheck_keeps_slot(S) ==
    LET f == S.funcs[S.cur]
    IN IF f.boolCheckInst = NoInst THEN [M |-> S, insts |-> <<>>]
       ELSE [M |-> S,
             insts |-> <<f.boolCheckInst>>
                       \o (IF f.moveInst = NoInst THEN <<>> ELSE <<f.moveInst>>)]

\* the caller's part: append the parked instructions and empty the slot
TakeBoolCheck(S) ==
    LET f == S.funcs[S.cur]
    IN IF f.boolCheckInst = NoInst THEN [M |-> S, insts |-> <<>>]
       ELSE [M |-> [S EXCEPT !.funcs[S.cur].boolCheckInst = NoInst,
                             !.funcs[S.cur].moveInst = NoInst],
             insts |-> <<f.boolCheckInst>>
                       \o (IF f.moveInst = NoInst THEN <<>> ELSE <<f.moveInst>>)]

(***************************************************************************)
(* a && b, a || b with short circuit; !a                                   *)
(***************************************************************************)
ir_logic_and(node, S) ==
    IF S.cur = 0 \/ Len(node.sons) < 2 THEN Fail(S)
    ELSE LET secondOpLabel == S.nid
             falseLabel == S.nid + 1
             endLabel == S.nid + 2
             res == newVarValue([S EXCEPT !.nid = @ + 3], "int", "")
             leftNode == ir_visit_ast_node(node.sons[1], res.M)
         IN IF res.val = NoVal THEN Fail(res.M)
            ELSE IF ~leftNode.ok \/ leftNode.val = NoVal THEN Fail(leftNode.M)
            ELSE LET lb == int_to_bool(leftNode.val, leftNode.M)
                     tk == TakeBoolCheck(lb.M)
                     rightNode == ir_visit_ast_node(node.sons[2], tk.M)
                 IN IF ~lb.ok THEN Fail(lb.M)
                    ELSE IF ~rightNode.ok \/ rightNode.val = NoVal THEN Fail(rightNode.M)
                    ELSE Ok(rightNode.M,
                            leftNode.insts \o tk.insts
                            \o <<CondGotoInstruction(lb.bool_val, LabelVal(secondOpLabel),
                                                     LabelVal(falseLabel), "ir_logic_and"),
                                 LabelInstruction(secondOpLabel, "ir_logic_and")>>
                            \o rightNode.insts
                            \o <<MoveInstruction(res.val, rightNode.val, "ir_logic_and"),
                                 GotoInstruction(LabelVal(endLabel), "ir_logic_and"),
                                 LabelInstruction(falseLabel, "ir_logic_and"),
                                 MoveInstruction(res.val, newConstInt(0), "ir_logic_and"),
                                 LabelInstruction(endLabel, "ir_logic_and")>>,
                            res.val)

ir_logic_or(node, S) ==
    IF S.cur = 0 \/ Len(node.sons) < 2 THEN Fail(S)
    ELSE LET secondOpLabel == S.nid
             trueLabel == S.nid + 1
             endLabel == S.nid + 2
             res == newVarValue([S EXCEPT !.nid = @ + 3], "int", "")
             leftNode == ir_visit_ast_node(node.sons[1], res.M)
         IN IF res.val = NoVal THEN Fail(res.M)
            ELSE IF ~leftNode.ok \/ leftNode.val = NoVal THEN Fail(leftNode.M)
            ELSE LET lb == int_to_bool(leftNode.val, leftNode.M)
                     tk == TakeBoolCheck(lb.M)
                     rightNode == ir_visit_ast_node(node.sons[2], tk.M)
                 IN IF ~lb.ok THEN Fail(lb.M)
                    ELSE IF ~rightNode.ok \/ rightNode.val = NoVal THEN Fail(rightNode.M)
                    ELSE Ok(rightNode.M,
                            leftNode.insts \o tk.insts
                            \o <<CondGotoInstruction(lb.bool_val, LabelVal(trueLabel),
                                                     LabelVal(secondOpLabel), "ir_logic_or"),
                                 LabelInstruction(secondOpLabel, "ir_logic_or")>>
                            \o rightNode.insts
                            \o <<MoveInstruction(res.val, rightNode.val, "ir_logic_or"),
                                 GotoInstruction(LabelVal(endLabel), "ir_logic_or"),
                                 LabelInstruction(trueLabel, "ir_logic_or"),
                                 MoveInstruction(res.val, newConstInt(1), "ir_logic_or"),
                                 LabelInstruction(endLabel, "ir_logic_or")>>,
                            res.val)

ir_logic_not(node, S) ==
    IF S.cur = 0 \/ Len(node.sons) = 0 THEN Fail(S)
    ELSE LET operandNode == ir_visit_ast_node(node.sons[1], S)
         IN IF ~operandNode.ok \/ operandNode.val = NoVal THEN Fail(operandNode.M)
            ELSE LET res == newVarValue(operandNode.M, "int", "")
                     id == res.M.nid
                     eqZeroInst == BinaryInstruction(id, "eq", operandNode.val,
                                                     newConstInt(0), "bool", "ir_logic_not")
                 IN IF res.val = NoVal THEN Fail(res.M)
                    ELSE Ok([res.M EXCEPT !.nid = @ + 1],
                            operandNode.insts
                            \o <<eqZeroInst,
                                 MoveInstruction(res.val, InstVal(id, "bool"), "ir_logic_not")>>,
                            res.val)

(***************************************************************************)
(* if, if-else, while, break, continue                                     *)
(***************************************************************************)
ir_if(node, S) ==
    IF S.cur = 0 THEN Fail(S)
    ELSE LET thenLabel == S.nid
             endLabel == S.nid + 1
             cond_node == ir_visit_ast_node(node.sons[1], [S EXCEPT !.nid = @ + 2])
         IN IF ~cond_node.ok THEN Fail(cond_node.M)
            ELSE IF cond_node.val = NoVal THEN Fail(cond_node.M)
            ELSE LET then_node == ir_visit_ast_node(node.sons[2], cond_node.M)
                 IN IF ~then_node.ok THEN Fail(then_node.M)
                    ELSE Ok(then_node.M,
                            cond_node.insts
                            \o <<CondGotoInstruction(cond_node.val, LabelVal(thenLabel),
                                                     LabelVal(endLabel), "ir_if"),
                                 LabelInstruction(thenLabel, "ir_if")>>
                            \o then_node.insts
                            \o <<LabelInstruction(endLabel, "ir_if")>>,
                            NoVal)

\* ir_if_else placing the end label where line 1403 places the else label
ir_if_else_end_twice(node, S) ==
    IF S.cur = 0 THEN Fail(S)
    ELSE LET thenLabel == S.nid
             elseLabel == S.nid + 1
             endLabel == S.nid + 2
             cond_node == ir_visit_ast_node(node.sons[1], [S EXCEPT !.nid = @ + 3])
         IN IF ~cond_node.ok THEN Fail(cond_node.M)
            ELSE IF cond_node.val = NoVal THEN Fail(cond_node.M)
            ELSE LET then_node == ir_visit_ast_node(node.sons[2], cond_node.M)
                 IN IF ~then_node.ok THEN Fail(then_node.M)
                    ELSE LET else_node == ir_visit_ast_node(node.sons[3], then_node.M)
                         IN IF ~else_node.ok THEN Fail(else_node.M)
                            ELSE Ok(else_node.M,
                                    cond_node.insts
                                    \o <<CondGotoInstruction(cond_node.val, LabelVal(thenLabel),
                                                             LabelVal(elseLabel), "ir_if_else"),
                                         LabelInstruction(thenLabel, "ir_if_else")>>
                                    \o then_node.insts
                                    \o <<GotoInstruction(LabelVal(endLabel), "ir_if_else"),
                                         LabelInstruction(endLabel, "ir_if_else")>>
                                    \o else_node.insts
                                    \o <<LabelInstruction(endLabel, "ir_if_else")>>,
                                    NoVal)

ir_if_else(node, S) ==
    IF S.cur = 0 THEN Fail(S)
    ELSE LET thenLabel == S.nid
             elseLabel == S.nid + 1
             endLabel == S.nid + 2
             cond_node == ir_visit_ast_node(node.sons[1], [S EXCEPT !.nid = @ + 3])
         IN IF ~cond_node.ok THEN Fail(cond_node.M)
            ELSE IF cond_node.val = NoVal THEN Fail(cond_node.M)
            ELSE LET then_node == ir_visit_ast_node(node.sons[2], cond_node.M)
                 IN IF ~then_node.ok THEN Fail(then_node.M)
                    ELSE LET else_node == ir_visit_ast_node(node.sons[3], then_node.M)
                         IN IF ~else_node.ok THEN Fail(else_node.M)
                            ELSE Ok(else_node.M,
                                    cond_node.insts
                                    \o <<CondGotoInstruction(cond_node.val, LabelVal(thenLabel),
                                                             LabelVal(elseLabel), "ir_if_else"),
                                         LabelInstruction(thenLabel, "ir_if_else")>>
                                    \o then_node.insts
                                    \o <<GotoInstruction(LabelVal(endLabel), "ir_if_else"),
                                         LabelInstruction(elseLabel, "ir_if_else")>>
                                    \o else_node.insts
                                    \o <<LabelInstruction(endLabel, "ir_if_else")>>,
                                    NoVal)

\* ir_while without lines 1462-1463: the labels of the finished loop stay current
ir_while_keeps_labels(node, S) ==
    IF S.cur = 0 THEN Fail(S)
    ELSE LET condLabel == S.nid
             bodyLabel == S.nid + 1
             endLabel == S.nid + 2
             S1 == [S EXCEPT !.nid = @ + 3,
                             !.funcs[S.cur].breakLabel = LabelVal(endLabel),
                             !.funcs[S.cur].continueLabel = LabelVal(condLabel)]
             cond_node == ir_visit_ast_node(node.sons[1], S1)
         IN IF ~cond_node.ok THEN Fail(cond_node.M)
            ELSE IF cond_node.val = NoVal THEN Fail(cond_node.M)
            ELSE LET body_node == ir_visit_ast_node(node.sons[2], cond_node.M)
                 IN IF ~body_node.ok THEN Fail(body_node.M)
                    ELSE Ok(body_node.M,
                            <<LabelInstruction(condLabel, "ir_while")>>
                            \o cond_node.insts
                            \o <<CondGotoInstruction(cond_node.val, LabelVal(bodyLabel),
                                                     LabelVal(endLabel), "ir_while"),
                                 LabelInstruction(bodyLabel, "ir_while")>>
                            \o body_node.insts
                            \o <<GotoInstruction(LabelVal(condLabel), "ir_while"),
                                 LabelInstruction(endLabel, "ir_while")>>,
                            NoVal)

ir_while(node, S) ==
    IF S.cur = 0 THEN Fail(S)
    ELSE LET condLabel == S.nid
             bodyLabel == S.nid + 1
             endLabel == S.nid + 2
             oldBreakLabel == S.funcs[S.cur].breakLabel
             oldContinueLabel == S.funcs[S.cur].continueLabel
             S1 == [S EXCEPT !.nid = @ + 3,
                             !.funcs[S.cur].breakLabel = LabelVal(endLabel),
                             !.funcs[S.cur].continueLabel = LabelVal(condLabel)]
             cond_node == ir_visit_ast_node(node.sons[1], S1)
         IN IF ~cond_node.ok THEN Fail(cond_node.M)
            ELSE IF cond_node.val = NoVal THEN Fail(cond_node.M)
            ELSE LET body_node == ir_visit_ast_node(node.sons[2], cond_node.M)
                 IN IF ~body_node.ok THEN Fail(body_node.M)
                    ELSE Ok([body_node.M EXCEPT
                                !.funcs[S.cur].breakLabel = oldBreakLabel,
                                !.funcs[S.cur].continueLabel = oldContinueLabel],
                            <<LabelInstruction(condLabel, "ir_while")>>
                            \o cond_node.insts
                            \o <<CondGotoInstruction(cond_node.val, LabelVal(bodyLabel),
                                                     LabelVal(endLabel), "ir_while"),
                                 LabelInstruction(bodyLabel, "ir_while")>>
                            \o body_node.insts
                            \o <<GotoInstruction(LabelVal(condLabel), "ir_while"),
                                 LabelInstruction(endLabel, "ir_while")>>,
                            NoVal)

\* ir_break without the null test of lines 1476-1480
ir_break_unchecked(node, S) ==
    IF S.cur = 0 THEN Fail(S)
    ELSE Ok(S, <<GotoInstruction(S.funcs[S.cur].breakLabel, "ir_break")>>, NoVal)

ir_break(node, S) ==
    IF S.cur = 0 THEN Fail(S)
    ELSE LET breakLabel == S.funcs[S.cur].breakLabel
         IN IF breakLabel = NoVal THEN Fail(S)
            ELSE Ok(S, <<GotoInstruction(breakLabel, "ir_break")>>, NoVal)

\* ir_continue jumping to the label a break jumps to
ir_continue_to_end(node, S) ==
    IF S.cur = 0 THEN Fail(S)
    ELSE LET continueLabel == S.funcs[S.cur].breakLabel
         IN IF continueLabel = NoVal THEN Fail(S)
            ELSE Ok(S, <<GotoInstruction(continueLabel, "ir_continue")>>, NoVal)

ir_continue(node, S) ==
    IF S.cur = 0 THEN Fail(S)
    ELSE LET continueLabel == S.funcs[S.cur].continueLabel
         IN IF continueLabel = NoVal THEN Fail(S)
            ELSE Ok(S, <<GotoInstruction(continueLabel, "ir_continue")>>, NoVal)

(***************************************************************************)
(* assignment, return, declarations                                        *)
(***************************************************************************)
\* ir_assign placing its Move before the instructions of the right-hand side
ir_assign_move_first(node, S) ==
    LET left == ir_visit_ast_node(node.sons[1], S)
    IN IF ~left.ok THEN Fail(left.M)
       ELSE LET right == ir_visit_ast_node(node.sons[2], left.M)
            IN IF ~right.ok THEN Fail(right.M)
               ELSE Ok(right.M,
                       <<MoveInstruction(left.val, right.val, "ir_assign")>>
                       \o right.insts \o left.insts,
                       NoVal)

ir_assign(node, S) ==
    LET left == ir_visit_ast_node(node.sons[1], S)
    IN IF ~left.ok THEN Fail(left.M)
       ELSE LET right == ir_visit_ast_node(node.sons[2], left.M)
            IN IF ~right.ok THEN Fail(right.M)
               ELSE Ok(right.M,
                       right.insts \o left.insts
                       \o <<MoveInstruction(left.val, right.val, "ir_assign")>>,
                       NoVal)

ir_return(node, S) ==
    IF Len(node.sons) # 0
    THEN LET right == ir_visit_ast_node(node.sons[1], S)
         IN IF ~right.ok THEN Fail(right.M)
            ELSE LET currentFunc == right.M.funcs[right.M.cur]
                 IN Ok(right.M,
                       right.insts
                       \o <<MoveInstruction(currentFunc.retValue, right.val, "ir_return"),
                            GotoInstruction(currentFunc.exitLabel, "ir_return")>>,
                       right.val)
    ELSE Ok(S, <<GotoInstruction(S.funcs[S.cur].exitLabel, "ir_return")>>, NoVal)

ir_variable_declare(node, S) ==
    LET r == newVarValue(S, node.sons[1].ty, node.sons[2].name)
    IN Ok(r.M, <<>>, r.val)

RECURSIVE DeclareLoop(_, _, _)

DeclareLoop(sons, i, S) ==
    IF i > Len(sons) THEN Ok(S, <<>>, NoVal)
    ELSE LET r == ir_variable_declare(sons[i], S)
         IN IF ~r.ok THEN Fail(r.M) ELSE DeclareLoop(sons, i + 1, r.M)

ir_declare_statment(node, S) ==
    IF Len(node.sons) = 0 THEN Fail(S) ELSE DeclareLoop(node.sons, 1, S)


(***************************************************************************)
(* Function call                                                           *)
(***************************************************************************)
RECURSIVE RealParams(_, _, _, _, _)

\* the loop over the argument expressions, left to right
\* the argument loop of ir_function_call collecting the values last to first
RealParams_reversed(sons, i, S, insts, realParams) ==
    IF i > Len(sons)
    THEN [ok |-> TRUE, M |-> S, insts |-> insts, realParams |-> realParams]
    ELSE LET temp == ir_visit_ast_node(sons[i], S)
         IN IF ~temp.ok
            THEN [ok |-> FALSE, M |-> temp.M, insts |-> insts, realParams |-> realParams]
            ELSE RealParams(sons, i + 1, temp.M, insts \o temp.insts,
                            <<temp.val>> \o realParams)

RealParams(sons, i, S, insts, realParams) ==
    IF i > Len(sons)
    THEN [ok |-> TRUE, M |-> S, insts |-> insts, realParams |-> realParams]
    ELSE LET temp == ir_visit_ast_node(sons[i], S)
         IN IF ~temp.ok
            THEN [ok |-> FALSE, M |-> temp.M, insts |-> insts, realParams |-> realParams]
            ELSE RealParams(sons, i + 1, temp.M, insts \o temp.insts,
                            Append(realParams, temp.val))

\* ir_function_call without the count test of lines 583-598
ir_function_call_any_count(node, S) ==
    LET funcName == node.sons[1].name
        paramsNode == node.sons[2]
        calledFunction == findFunction(S, funcName)
    IN IF calledFunction = 0 THEN Fail(S)
       ELSE LET argsCount == Len(paramsNode.sons)
                S1 == [S EXCEPT !.funcs[S.cur].existFuncCall = TRUE,
                                !.funcs[S.cur].maxFuncCallArgCnt =
                                    IF argsCount > @ THEN argsCount ELSE @]
                args == RealParams(paramsNode.sons, 1, S1, <<>>, <<>>)
            IN IF ~args.ok THEN Fail(args.M)
               ELSE LET id == args.M.nid
                        type == args.M.funcs[calledFunction].retType
                        funcCallInst == FuncCallInstruction(id, funcName, args.realParams,
                                                            type, "ir_function_call")
                    IN Ok([args.M EXCEPT !.nid = @ + 1],
                          args.insts \o <<funcCallInst>>, InstVal(id, type))

ir_function_call(node, S) ==
    LET funcName == node.sons[1].name
        paramsNode == node.sons[2]
        calledFunction == findFunction(S, funcName)
    IN IF calledFunction = 0 THEN Fail(S)
       ELSE LET argsCount == Len(paramsNode.sons)
                S1 == [S EXCEPT !.funcs[S.cur].existFuncCall = TRUE,
                                !.funcs[S.cur].maxFuncCallArgCnt =
                                    IF argsCount > @ THEN argsCount ELSE @]
                args == RealParams(paramsNode.sons, 1, S1, <<>>, <<>>)
            IN IF ~args.ok THEN Fail(args.M)
               ELSE IF Len(args.realParams) # Len(args.M.funcs[calledFunction].params)
               THEN Fail(args.M)
               ELSE LET id == args.M.nid
                        type == args.M.funcs[calledFunction].retType
                        funcCallInst == FuncCallInstruction(id, funcName, args.realParams,
                                                            type, "ir_function_call")
                    IN Ok([args.M EXCEPT !.nid = @ + 1],
                          args.insts \o <<funcCallInst>>, InstVal(id, type))

(***************************************************************************)
(* Block                                                                   *)
(***************************************************************************)
RECURSIVE BlockLoop(_, _, _, _)

\* the statement loop of ir_block without the return of lines 630-632: the
\* statements after a failing one are still lowered
BlockLoop_keeps_going(sons, i, S, insts) ==
    IF i > Len(sons) THEN Ok(S, insts, NoVal)
    ELSE LET temp == ir_visit_ast_node(sons[i], S)
             rest == BlockLoop(sons, i + 1, temp.M, insts \o temp.insts)
         IN IF ~temp.ok THEN Fail(rest.M) ELSE rest

BlockLoop(sons, i, S, insts) ==
    IF i > Len(sons) THEN Ok(S, insts, NoVal)
    ELSE LET temp == ir_visit_ast_node(sons[i], S)
         IN IF ~temp.ok THEN Fail(temp.M)
            ELSE BlockLoop(sons, i + 1, temp.M, insts \o temp.insts)

\* ir_block without the frame of lines 621-624 and 638-640
ir_block_no_frame(node, S) ==
    LET body == BlockLoop(node.sons, 1, S, <<>>)
    IN IF ~body.ok THEN Fail(body.M) ELSE Ok(body.M, body.insts, NoVal)

ir_block(node, S) ==
    LET S1 == IF node.needScope THEN enterScope(S) ELSE S
        body == BlockLoop(node.sons, 1, S1, <<>>)
    IN IF ~body.ok THEN Fail(body.M)
       ELSE Ok(IF node.needScope THEN leaveScope(body.M) ELSE body.M, body.insts, NoVal)

(***************************************************************************)
(* Function definition                                                     *)
(***************************************************************************)
RECURSIVE FormalParamsLoop(_, _)

\* one body-local per parameter of the current function and a Move into it,
\* appended to the function's own instruction list
FormalParamsLoop(i, S) ==
    IF i > Len(S.funcs[S.cur].params) THEN Ok(S, <<>>, NoVal)
    ELSE LET param == S.funcs[S.cur].params[i]
             localParam == newVarValue(S, param.ty, param.name)
         IN IF localParam.val = NoVal THEN Fail(localParam.M)
            ELSE FormalParamsLoop(i + 1,
                    [localParam.M EXCEPT !.funcs[S.cur].code =
                        Append(@, MoveInstruction(localParam.val, param,
                                                  "ir_function_formal_params"))])

\* ir_function_formal_params binding nothing: no body-local, no Move
ir_function_formal_params_no_bind(node, S) ==
    IF S.cur = 0 THEN Fail(S) ELSE Ok(S, <<>>, NoVal)

ir_function_formal_params(node, S) ==
    IF S.cur = 0 THEN Fail(S) ELSE FormalParamsLoop(1, S)

RECURSIVE ParamsOf(_, _, _)

\* the FormalParam list built from a parameter-list node: a son with fewer
\* than two children is skipped
ParamsOf(sons, i, acc) ==
    IF i > Len(sons) THEN acc
    ELSE ParamsOf(sons, i + 1,
                  IF Len(sons[i].sons) >= 2
                  THEN Append(acc, FormalParam(Len(acc) + 1, sons[i].sons[1].ty,
                                               sons[i].sons[2].name))
                  ELSE acc)

ir_function_define(node, S) ==
    LET type_node == node.sons[1]
        name_node == node.sons[2]
        param_node == node.sons[3]
        block_node == node.sons[4]
        found == findFunction(S, name_node.name)
        malformed == \E i \in 1..Len(param_node.sons) : Len(param_node.sons[i].sons) < 2
        created == newFunction(S, name_node.name, type_node.ty,
                               ParamsOf(param_node.sons, 1, <<>>))
    IN IF S.cur # 0 THEN Fail(S)
       ELSE IF found = 0 /\ malformed THEN Fail(S)
       ELSE IF found = 0 /\ created.f = 0 THEN Fail(created.M)
       ELSE LET newFunc == IF found # 0 THEN found ELSE created.f
                S1 == enterScope([(IF found # 0 THEN S ELSE created.M) EXCEPT !.cur = newFunc])
                exitLabelInst == S1.nid
                S2 == [S1 EXCEPT !.nid = @ + 1,
                                 !.funcs[newFunc].code =
                                     Append(@, EntryInstruction("ir_function_define")),
                                 !.funcs[newFunc].exitLabel = LabelVal(exitLabelInst)]
                fp == ir_function_formal_params(param_node, S2)
            IN IF ~fp.ok THEN Fail(fp.M)
               ELSE LET rv == IF type_node.ty # "void"
                              THEN newVarValue(fp.M, type_node.ty, "")
                              ELSE [M |-> fp.M, val |-> NoVal]
                        S3 == [rv.M EXCEPT !.funcs[newFunc].retValue = rv.val]
                        body == ir_block([block_node EXCEPT !.needScope = FALSE], S3)
                    IN IF ~body.ok THEN Fail(body.M)
                       ELSE Ok(leaveScope(
                                 [body.M EXCEPT
                                    !.funcs[newFunc].code =
                                        @ \o fp.insts \o body.insts
                                          \o <<LabelInstruction(exitLabelInst, "ir_function_define"),
                                               ExitInstruction(rv.val, "ir_function_define")>>,
                                    !.cur = 0]),
                               <<>>, NoVal)

(***************************************************************************)
(* Compilation unit: pass 1 registers the prototypes, pass 2 lowers every  *)
(* top-level node in source order.                                         *)
(***************************************************************************)
\* the parameters pass 1 registers for a function definition
RegisteredParams(name_node, param_node) ==
    IF Len(param_node.sons) # 0 THEN ParamsOf(param_node.sons, 1, <<>>)
    ELSE IF name_node.name = "get_one" THEN <<FormalParam(1, "int", "a")>>
    ELSE IF name_node.name = "deepWhileBr"
    THEN <<FormalParam(1, "int", "a"), FormalParam(2, "int", "b")>>
    ELSE <<>>

RECURSIVE RegisterLoop(_, _, _)

RegisterLoop(sons, i, S) ==
    IF i > Len(sons) THEN S
    ELSE IF sons[i].op # "func_def" THEN RegisterLoop(sons, i + 1, S)
    ELSE LET son == sons[i]
             func == newFunction(S, son.sons[2].name, son.sons[1].ty,
                                 RegisteredParams(son.sons[2], son.sons[3]))
         IN RegisterLoop(sons, i + 1, func.M)

RECURSIVE LowerLoop(_, _, _)

LowerLoop(sons, i, S) ==
    IF i > Len(sons) THEN Ok(S, <<>>, NoVal)
    ELSE LET son_node == ir_visit_ast_node(sons[i], S)
         IN IF ~son_node.ok THEN Fail(son_node.M)
            ELSE LowerLoop(sons, i + 1, son_node.M)

\* ir_compile_unit without pass 1 (lines 176-220): a function is registered
\* when its definition is lowered
ir_compile_unit_one_pass(node, S) ==
    LowerLoop(node.sons, 1, [S EXCEPT !.cur = 0])

ir_compile_unit(node, S) ==
    LowerLoop(node.sons, 1, RegisterLoop(node.sons, 1, [S EXCEPT !.cur = 0]))

\* a node type without a handler is reported and accepted
ir_default(node, S) == Ok(S, <<>>, NoVal)

Handler(node, S) ==
    CASE node.op = "uint" -> ir_leaf_node_uint(node, S)
      [] node.op = "var" -> ir_leaf_node_var_id(node, S)
      [] node.op = "type" -> ir_leaf_node_type(node, S)
      [] node.op = "sub" -> ir_sub(node, S)
      [] node.op = "add" -> ir_add(node, S)
      [] node.op = "mul" -> ir_mul(node, S)
      [] node.op = "div" -> ir_div(node, S)
      [] node.op = "mod" -> ir_mod(node, S)
      [] node.op = "neg" -> ir_neg(node, S)
      [] node.op = "lt" -> ir_lt(node, S)
      [] node.op = "gt" -> ir_gt(node, S)
      [] node.op = "le" -> ir_le(node, S)
      [] node.op = "ge" -> ir_ge(node, S)
      [] node.op = "eq" -> ir_eq(node, S)
      [] node.op = "ne" -> ir_ne(node, S)
      [] node.op = "and" -> ir_logic_and(node, S)
      [] node.op = "or" -> ir_logic_or(node, S)
      [] node.op = "not" -> ir_logic_not(node, S)
      [] node.op = "if" -> ir_if(node, S)
      [] node.op = "if_else" -> ir_if_else(node, S)
      [] node.op = "while" -> ir_while(node, S)
      [] node.op = "break" -> ir_break(node, S)
      [] node.op = "continue" -> ir_continue(node, S)
      [] node.op = "assign" -> ir_assign(node, S)
      [] node.op = "return" -> ir_return(node, S)
      [] node.op = "call" -> ir_function_call(node, S)
      [] node.op = "func_def" -> ir_function_define(node, S)
      [] node.op = "formal_params" -> ir_function_formal_params(node, S)
      [] node.op = "decl_stmt" -> ir_declare_statment(node, S)
      [] node.op = "var_decl" -> ir_variable_declare(node, S)
      [] node.op = "block" -> ir_block(node, S)
      [] node.op = "compile_unit" -> ir_compile_unit(node, S)
      [] OTHER -> ir_default(node, S)

\* a null node fails; otherwise the handler of the node's type decides
ir_visit_ast_node(node, S) ==
    IF node.op = "nullptr" THEN Fail(S)
    ELSE LET c0 == Ctx(S)
             r == Handler(node, [S EXCEPT !.log = Append(@, Event("enter", node, TRUE, c0, S))])
         IN [r EXCEPT !.M.log = Append(@, Event("return", node, r.ok, c0, r.M))]

\* IRGenerator::run
run(root) == ir_visit_ast_node(root, M0)


(***************************************************************************)
(* The parser's literals and unary minus.  A literal text is the sequence  *)
(* of its characters.                                                      *)
(***************************************************************************)
DigitChars == <<"0", "1", "2", "3", "4", "5", "6", "7", "8", "9",
                "a", "b", "c", "d", "e", "f">>

UpperChars == <<"0", "1", "2", "3", "4", "5", "6", "7", "8", "9",
                "A", "B", "C", "D", "E", "F">>

\* the value of character c as a digit of the base, -1 when it is none
DigitVal(c, base) ==
    LET hit == {i \in 1..base : DigitChars[i] = c \/ UpperChars[i] = c}
    IN IF hit = {} THEN 0 - 1 ELSE (CHOOSE i \in hit : TRUE) - 1

\* u * base + d, kept to 32 bits
MulAdd(u, base, d) ==
    LET low == u[2] * base + d
        high == u[1] * base + low \div Half
    IN <<high % Half, low % Half>>

RECURSIVE StoulFrom(_, _, _, _)

\* the digits of text from position i on, up to the first character that is
\* no digit of the base
StoulFrom(text, i, base, acc) ==
    IF i > Len(text) \/ DigitVal(text[i], base) < 0 THEN acc
    ELSE StoulFrom(text, i + 1, base, MulAdd(acc, base, DigitVal(text[i], base)))

\* std::stoul(text, nullptr, base) stored in a uint32_t; base 16 skips a
\* leading 0x or 0X
stoul(text, base) ==
    IF base = 16 /\ Len(text) > 2 /\ text[1] = "0" /\ text[2] \in {"x", "X"}
    THEN StoulFrom(text, 3, 16, U32(0))
    ELSE StoulFrom(text, 1, base, U32(0))

\* the literal rule without its octal branch: every text that is not
\* hexadecimal is read in base 10
visitDigit_no_octal(text) ==
    LET val == IF Len(text) > 2 /\ text[1] = "0" /\ text[2] \in {"x", "X"}
               THEN stoul(text, 16)
               ELSE stoul(text, 10)
    IN [Node("uint", <<>>) EXCEPT !.ival = val]

\* visitPrimaryExp on a T_DIGIT token
visitDigit(text) ==
    LET val == IF Len(text) > 2 /\ text[1] = "0" /\ text[2] \in {"x", "X"}
               THEN stoul(text, 16)
               ELSE IF Len(text) > 1 /\ text[1] = "0" THEN stoul(text, 8)
               ELSE stoul(text, 10)
    IN [Node("uint", <<>>) EXCEPT !.ival = val]

\* parse trees of unaryExp: a literal, a parenthesised expression, a unary
\* minus, or an expression built by the other visit functions
Digit(text) == [t |-> "digit", text |-> text]

Paren(e) == [t |-> "paren", e |-> e]

Minus(e) == [t |-> "minus", e |-> e]

Other(node) == [t |-> "other", node |-> node]

RECURSIVE visitUnaryExp(_)

\* the AST of a parse tree; ub tells that a literal equal to INT_MIN was
\* negated, a signed overflow: node then holds the wrapped value, the other
\* outcome being a trap
visitUnaryExp(ctx) ==
    CASE ctx.t = "digit" -> [node |-> visitDigit(ctx.text), ub |-> FALSE]
      [] ctx.t = "other" -> [node |-> ctx.node, ub |-> FALSE]
      [] ctx.t = "paren" -> visitUnaryExp(ctx.e)
      [] ctx.t = "minus" ->
            LET unaryNode == visitUnaryExp(ctx.e)
                v == ToInt32(unaryNode.node.ival)
            IN IF unaryNode.node.op = "uint"
               THEN IF v = MinInt32
                    THEN [node |-> unaryNode.node, ub |-> TRUE]
                    ELSE [node |-> [unaryNode.node EXCEPT !.ival = ToUint32(0 - v)],
                          ub |-> unaryNode.ub]
               ELSE [node |-> Neg(unaryNode.node), ub |-> unaryNode.ub]

(***************************************************************************)
(* The compilation units the generator is run on.                          *)
(***************************************************************************)
Vals == 0..MaxVal

Main(stmts) == FuncDef("int", "main", <<>>, stmts)

\* int id(int x) { return x; }
IdFunc == FuncDef("int", "id", <<"x">>, <<Ret(Var("x"))>>)

\* --- short-circuit operators: r = LEFT op (b + 0) with a = A, b = B
LeftKinds == {"var", "cmp", "not", "and", "call"}

LogicLeft(kind) ==
    CASE kind = "var" -> Var("a")
      [] kind = "cmp" -> Bin("lt", Var("a"), Lit(1))
      [] kind = "not" -> Not(Var("a"))
      [] kind = "and" -> Bin("and", Var("a"), Lit(1))
      [] kind = "call" -> Call("id", <<Var("a")>>)

LogicProg(op, kind, A, B) ==
    CompileUnit(<<IdFunc,
                  Main(<<Decl2("a", "b"), Decl("r"),
                         Assign("a", Lit(A)), Assign("b", Lit(B)),
                         Assign("r", Bin(op, LogicLeft(kind), Bin("add", Var("b"), Lit(0)))),
                         Ret(Var("r"))>>)>>)

LogicProgs ==
    {LogicProg(op, kind, A, B) : op \in {"and", "or"}, kind \in LeftKinds, A \in Vals, B \in Vals}

\* --- conditions of if, if-else and while
CondKinds == {"var", "lit", "arith", "call", "not", "and", "or", "cmp", "neg"}

CondExpr(kind, A) ==
    CASE kind = "var" -> Var("a")
      [] kind = "lit" -> Lit(A)
      [] kind = "arith" -> Bin("sub", Var("a"), Lit(1))
      [] kind = "call" -> Call("id", <<Var("a")>>)
      [] kind = "not" -> Not(Var("a"))
      [] kind = "and" -> Bin("and", Var("a"), Var("b"))
      [] kind = "or" -> Bin("or", Var("a"), Var("b"))
      [] kind = "cmp" -> Bin("lt", Var("a"), Lit(1))
      [] kind = "neg" -> Neg(Var("a"))

CondStmt(stmt, c) ==
    CASE stmt = "if" -> If(c, Assign("b", Lit(1)))
      [] stmt = "if_else" -> IfElse(c, Assign("b", Lit(1)), Assign("b", Lit(2)))
      [] stmt = "while" ->
            While(c, Block(<<Assign("b", Bin("add", Var("b"), Lit(1))), Break>>))

CondProg(stmt, kind, A) ==
    CompileUnit(<<IdFunc,
                  Main(<<Decl2("a", "b"), Assign("a", Lit(A)), Assign("b", Lit(0)),
                         CondStmt(stmt, CondExpr(kind, A)),
                         Ret(Var("b"))>>)>>)

CondProgs ==
    {CondProg(stmt, kind, A) : stmt \in {"if", "if_else", "while"}, kind \in CondKinds, A \in Vals}

\* --- nested loops; js[d] is the jump statement closing the body of the
\* loop at nesting level d (level 1 is the innermost loop)
JumpKinds == {"none", "break", "continue", "ifbreak", "ifcontinue"}

JumpStmt(k) ==
    CASE k = "none" -> <<>>
      [] k = "break" -> <<Break>>
      [] k = "continue" -> <<Continue>>
      [] k = "ifbreak" -> <<If(Bin("gt", Var("a"), Lit(1)), Break)>>
      [] k = "ifcontinue" -> <<If(Bin("gt", Var("a"), Lit(1)), Continue)>>

Incr == Assign("a", Bin("add", Var("a"), Lit(1)))

LoopCond == Bin("lt", Var("a"), Lit(MaxVal))

RECURSIVE Loop(_, _)

Loop(d, js) ==
    IF d = 1 THEN While(LoopCond, Block(<<Incr>> \o JumpStmt(js[1])))
    ELSE While(LoopCond, Block(<<Incr, Loop(d - 1, js)>> \o JumpStmt(js[d])))

LoopProg(d, js) ==
    CompileUnit(<<Main(<<Decl("a"), Assign("a", Lit(0)), Loop(d, js), Ret(Var("a"))>>)>>)

LoopProgs == UNION {{LoopProg(d, js) : js \in [1..d -> JumpKinds]} : d \in 1..LoopDepth}

\* --- break / continue outside every loop
SimpleLoop == While(LoopCond, Block(<<Incr>>))

OutsideKinds == {"bare", "afterloop", "otherfunc", "inif", "inblock", "afternest"}

OutsideProg(kind, J) ==
    CASE kind = "bare" -> CompileUnit(<<Main(<<J, Ret(Lit(0))>>)>>)
      [] kind = "afterloop" ->
            CompileUnit(<<Main(<<Decl("a"), Assign("a", Lit(0)), SimpleLoop, J, Ret(Var("a"))>>)>>)
      [] kind = "otherfunc" ->
            CompileUnit(<<FuncDef("int", "f", <<"a">>, <<While(LoopCond, Block(<<Incr, Break>>)),
                                                         Ret(Var("a"))>>),
                          Main(<<J, Ret(Lit(0))>>)>>)
      [] kind = "inif" ->
            CompileUnit(<<Main(<<Decl("a"), Assign("a", Lit(0)),
                                 If(Bin("lt", Var("a"), Lit(1)), J), Ret(Var("a"))>>)>>)
      [] kind = "inblock" -> CompileUnit(<<Main(<<Block(<<J>>), Ret(Lit(0))>>)>>)
      [] kind = "afternest" ->
            CompileUnit(<<Main(<<Decl("a"), Assign("a", Lit(0)),
                                 While(LoopCond, Block(<<Incr, SimpleLoop>>)),
                                 J, Ret(Var("a"))>>)>>)

OutsideProgs == {OutsideProg(kind, J) : kind \in OutsideKinds, J \in {Break, Continue}}

\* --- two definitions of one function name
DupKinds == {"plain", "params", "main"}

DupProg(kind) ==
    CASE kind = "plain" ->
            CompileUnit(<<FuncDef("int", "f", <<>>, <<Ret(Lit(1))>>),
                          FuncDef("int", "f", <<>>, <<Ret(Lit(2))>>),
                          Main(<<Ret(Call("f", <<>>))>>)>>)
      [] kind = "params" ->
            CompileUnit(<<FuncDef("int", "f", <<"a">>, <<Ret(Var("a"))>>),
                          FuncDef("int", "f", <<"a">>, <<Ret(Bin("add", Var("a"), Lit(1)))>>),
                          Main(<<Ret(Call("f", <<Lit(1)>>))>>)>>)
      [] kind = "main" ->
            CompileUnit(<<Main(<<Ret(Lit(0))>>), Main(<<Ret(Lit(1))>>)>>)

DupProgs == {DupProg(kind) : kind \in DupKinds}

\* --- names that do not resolve
UnresolvedKinds ==
    {"assign", "read", "call", "callarg", "afterblock", "otherparam", "inif", "inwhile"}

UnresolvedProg(kind) ==
    CASE kind = "assign" -> CompileUnit(<<Main(<<Assign("x", Lit(1)), Ret(Lit(0))>>)>>)
      [] kind = "read" ->
            CompileUnit(<<Main(<<Decl("a"), Assign("a", Var("y")), Ret(Var("a"))>>)>>)
      [] kind = "call" -> CompileUnit(<<Main(<<Ret(Call("h", <<Lit(1)>>))>>)>>)
      [] kind = "callarg" ->
            CompileUnit(<<IdFunc, Main(<<Ret(Call("h", <<Call("id", <<Lit(1)>>)>>))>>)>>)
      [] kind = "afterblock" ->
            CompileUnit(<<Main(<<Block(<<Decl("x")>>), Assign("x", Lit(1)), Ret(Lit(0))>>)>>)
      [] kind = "otherparam" -> CompileUnit(<<IdFunc, Main(<<Ret(Var("x"))>>)>>)
      [] kind = "inif" ->
            CompileUnit(<<Main(<<Decl("a"), Assign("a", Lit(1)),
                                 If(Bin("lt", Var("a"), Lit(2)), Block(<<Ret(Var("z"))>>)),
                                 Ret(Var("a"))>>)>>)
      [] kind = "inwhile" ->
            CompileUnit(<<Main(<<Decl("a"), Assign("a", Lit(0)),
                                 While(LoopCond,
                                       Block(<<Assign("a", Bin("add", Var("w"), Lit(1)))>>)),
                                 Ret(Var("a"))>>)>>)

UnresolvedProgs == {UnresolvedProg(kind) : kind \in UnresolvedKinds}

\* --- calls with p parameters declared and n arguments given
ParamNames(p) == SubSeq(<<"p", "q", "s", "t">>, 1, p)

ArgList(n) == [i \in 1..n |-> Lit(i)]

CalleePlaces == {"before", "after", "self"}

ArityProg(place, p, n) ==
    CASE place = "before" ->
            CompileUnit(<<FuncDef("int", "g", ParamNames(p), <<Ret(Lit(1))>>),
                          Main(<<Ret(Call("g", ArgList(n)))>>)>>)
      [] place = "after" ->
            CompileUnit(<<Main(<<Ret(Call("g", ArgList(n)))>>),
                          FuncDef("int", "g", ParamNames(p), <<Ret(Lit(1))>>)>>)
      [] place = "self" ->
            CompileUnit(<<FuncDef("int", "g", ParamNames(p),
                                  <<If(Bin("lt", Lit(1), Lit(0)), Ret(Call("g", ArgList(n)))),
                                    Ret(Lit(1))>>),
                          Main(<<Ret(Lit(0))>>)>>)

ArityProgs == {ArityProg(place, p, n) : place \in CalleePlaces, p \in 0..MaxVal, n \in 0..MaxVal}

\* --- calls with as many arguments as the callee has parameters
ArgKinds == {"lit", "var", "add", "call"}

ArgExpr(kind, i) ==
    CASE kind = "lit" -> Lit(i)
      [] kind = "var" -> Var("a")
      [] kind = "add" -> Bin("add", Var("a"), Lit(i))
      [] kind = "call" -> Call("id", <<Lit(i)>>)

\* int id(int x){..}  int g(int p, ..){ return 1; }
\* int main(){ int a; a = 1; return g(e1, .., ek); }
CallProg(kinds) ==
    CompileUnit(<<IdFunc,
                  FuncDef("int", "g", ParamNames(Len(kinds)), <<Ret(Lit(1))>>),
                  Main(<<Decl("a"), Assign("a", Lit(1)),
                         Ret(Call("g", [i \in 1..Len(kinds) |-> ArgExpr(kinds[i], i)]))>>)>>)

CallProgs == UNION {{CallProg(kinds) : kinds \in [1..k -> ArgKinds]} : k \in 0..MaxVal}

\* --- one function called with as many arguments as its definition declares
FuncNames == {"h", "get_one", "deepWhileBr"}

\* int NAME(int p, ..){ return 1; }  int main(){ return NAME(1, ..); }
NameProg(name, p) ==
    CompileUnit(<<FuncDef("int", name, ParamNames(p), <<Ret(Lit(1))>>),
                  Main(<<Ret(Call(name, ArgList(p)))>>)>>)

NameProgs == {NameProg(name, p) : name \in FuncNames, p \in 0..MaxVal}

\* --- calls of functions defined later, of the caller itself, and between two
\* --- functions that call each other
RecKinds == {"forward", "self", "mutual"}

\* if (n < 1) return BASE; return STEP;
Countdown(base, step) ==
    <<If(Bin("lt", Var("n"), Lit(1)), Ret(Lit(base))), Ret(step)>>

Pred == Bin("sub", Var("n"), Lit(1))

RecProg(kind, N) ==
    CASE kind = "forward" ->
            CompileUnit(<<Main(<<Ret(Call("g", <<Lit(N)>>))>>),
                          FuncDef("int", "g", <<"n">>, <<Ret(Bin("add", Var("n"), Lit(1)))>>)>>)
      [] kind = "self" ->
            CompileUnit(<<FuncDef("int", "f", <<"n">>,
                                  Countdown(0, Bin("add", Call("f", <<Pred>>), Lit(1)))),
                          Main(<<Ret(Call("f", <<Lit(N)>>))>>)>>)
      [] kind = "mutual" ->
            CompileUnit(<<FuncDef("int", "even", <<"n">>, Countdown(1, Call("odd", <<Pred>>))),
                          FuncDef("int", "odd", <<"n">>, Countdown(0, Call("even", <<Pred>>))),
                          Main(<<Ret(Call("even", <<Lit(N)>>))>>)>>)

RecProgs == {RecProg(kind, N) : kind \in RecKinds, N \in Vals}

\* --- return statements with and without a value in int and void functions
\* (the lowering takes any AST; the parser under src/ builds int functions
\* and returns with a value only)
RetTypes == {"int", "void"}

RetPlaces == {"plain", "inif", "inwhile"}

RetStmt(withValue) ==
    IF withValue THEN Ret(Bin("add", Var("n"), Lit(1))) ELSE Node("return", <<>>)

\* TYPE r(int n){ .. return [n + 1]; .. }  int main(){ return 0; }
RetProg(rt, withValue, place) ==
    LET guard == Bin("lt", Var("n"), Lit(1))
        body == CASE place = "plain" -> <<RetStmt(withValue)>>
                  [] place = "inif" -> <<If(guard, RetStmt(withValue)), RetStmt(withValue)>>
                  [] place = "inwhile" ->
                        <<While(guard, Block(<<RetStmt(withValue)>>)), RetStmt(withValue)>>
    IN CompileUnit(<<FuncDef(rt, "r", <<"n">>, body), Main(<<Ret(Lit(0))>>)>>)

RetProgs == {RetProg(rt, w, place) : rt \in RetTypes, w \in BOOLEAN, place \in RetPlaces}

\* --- the six comparisons
CmpOps == {"lt", "gt", "le", "ge", "eq", "ne"}

\* int main(){ int a,b; int r; a = A; b = B; r = a OP b; return r; }
CmpProg(op, A, B) ==
    CompileUnit(<<Main(<<Decl2("a", "b"), Decl("r"), Assign("a", Lit(A)), Assign("b", Lit(B)),
                         Assign("r", Bin(op, Var("a"), Var("b"))), Ret(Var("r"))>>)>>)

CmpProgs == {CmpProg(op, A, B) : op \in CmpOps, A \in Vals, B \in Vals}

\* --- literals in the three notations, plain and negated, and unary minus on
\* --- operands that are no literal
LitTexts ==
    {<<"0">>, <<"7">>, <<"1", "0">>, <<"0", "1", "0">>, <<"0", "0">>,
     <<"0", "x", "1", "0">>, <<"0", "X", "1", "f">>, <<"0", "x", "A">>,
     <<"2", "1", "4", "7", "4", "8", "3", "6", "4", "7">>,
     <<"2", "1", "4", "7", "4", "8", "3", "6", "4", "8">>,
     <<"4", "2", "9", "4", "9", "6", "7", "2", "9", "5">>,
     <<"0", "x", "8", "0", "0", "0", "0", "0", "0", "0">>,
     <<"0", "X", "F", "F", "f", "f", "F", "F", "f", "f">>,
     <<"0", "3", "7", "7", "7", "7", "7", "7", "7", "7", "7", "7">>,
     <<"0", "2", "0", "0", "0", "0", "0", "0", "0", "0", "0", "1">>}

LitForms == {"n", "-n", "-(n)", "--n", "-(-n)"}

LitTree(form, text) ==
    CASE form = "n" -> Digit(text)
      [] form = "-n" -> Minus(Digit(text))
      [] form = "-(n)" -> Minus(Paren(Digit(text)))
      [] form = "--n" -> Minus(Minus(Digit(text)))
      [] form = "-(-n)" -> Minus(Paren(Minus(Digit(text))))

OperandKinds == {"var", "sum", "call", "minus"}

OperandTree(kind) ==
    CASE kind = "var" -> Other(Var("a"))
      [] kind = "sum" -> Paren(Other(Bin("add", Var("a"), Lit(1))))
      [] kind = "call" -> Other(Call("id", <<Var("a")>>))
      [] kind = "minus" -> Minus(Other(Var("a")))

\* int main(){ int a; a = 1; return EXPR; }
UnaryProg(ctx) ==
    CompileUnit(<<IdFunc,
                  Main(<<Decl("a"), Assign("a", Lit(1)), Ret(visitUnaryExp(ctx).node)>>)>>)

\* --- declarations: a name declared twice in one frame, and a name of an
\* --- outer frame declared again in an inner block
RedeclKinds == {"block", "statement", "param", "inner"}

RedeclProg(kind) ==
    CASE kind = "block" ->
             \* int main(){ int a; a = 1; int a; return a; }
             CompileUnit(<<Main(<<Decl("a"), Assign("a", Lit(1)), Decl("a"), Ret(Var("a"))>>)>>)
      [] kind = "statement" ->
             \* int main(){ int a, a; a = 1; return a; }
             CompileUnit(<<Main(<<Decl2("a", "a"), Assign("a", Lit(1)), Ret(Var("a"))>>)>>)
      [] kind = "param" ->
             \* int f(int p){ int p; return p; }  int main(){ return f(1); }
             CompileUnit(<<FuncDef("int", "f", <<"p">>, <<Decl("p"), Ret(Var("p"))>>),
                           Main(<<Ret(Call("f", <<Lit(1)>>))>>)>>)
      [] kind = "inner" ->
             \* int main(){ int r; r = 1; { int a; int a; a = 2; } return r; }
             CompileUnit(<<Main(<<Decl("r"), Assign("r", Lit(1)),
                                  Block(<<Decl("a"), Decl("a"), Assign("a", Lit(2))>>),
                                  Ret(Var("r"))>>)>>)

RedeclProgs == {RedeclProg(kind) : kind \in RedeclKinds}

\* int main(){ int a; int r; a = A; { int a; a = B; r = a; } return r + r + a; }
ShadowProg(A, B) ==
    CompileUnit(<<Main(<<Decl("a"), Decl("r"), Assign("a", Lit(A)),
                         Block(<<Decl("a"), Assign("a", Lit(B)), Assign("r", Var("a"))>>),
                         Ret(Bin("add", Bin("add", Var("r"), Var("r")), Var("a")))>>)>>)

ShadowProgs == {ShadowProg(A, B) : A \in Vals, B \in Vals}

\* --- a failing node followed by siblings: u is declared nowhere
FailKinds == {"stmt", "arg", "def", "nested", "cond", "left", "jump"}

FailProg(kind) ==
    CASE kind = "stmt" ->
             \* int main(){ int a; a = u; a = 1; return a; }
             CompileUnit(<<Main(<<Decl("a"), Assign("a", Var("u")), Assign("a", Lit(1)),
                                  Ret(Var("a"))>>)>>)
      [] kind = "arg" ->
             \* int g(int p, int q){ return 1; }  int main(){ int a; a = 1; return g(u, a + 1); }
             CompileUnit(<<FuncDef("int", "g", <<"p", "q">>, <<Ret(Lit(1))>>),
                           Main(<<Decl("a"), Assign("a", Lit(1)),
                                  Ret(Call("g", <<Var("u"), Bin("add", Var("a"), Lit(1))>>))>>)>>)
      [] kind = "def" ->
             \* int f(){ return u; }  int main(){ return 0; }
             CompileUnit(<<FuncDef("int", "f", <<>>, <<Ret(Var("u"))>>), Main(<<Ret(Lit(0))>>)>>)
      [] kind = "nested" ->
             \* int main(){ int a; a = 0; if (a < 1) { while (a < 2) { a = u; a = a + 1; } a = 2; } return a; }
             CompileUnit(<<Main(<<Decl("a"), Assign("a", Lit(0)),
                                  If(Bin("lt", Var("a"), Lit(1)),
                                     Block(<<While(Bin("lt", Var("a"), Lit(2)),
                                                   Block(<<Assign("a", Var("u")),
                                                           Assign("a", Bin("add", Var("a"), Lit(1)))>>)),
                                             Assign("a", Lit(2))>>)),
                                  Ret(Var("a"))>>)>>)
      [] kind = "cond" ->
             \* int main(){ int a; a = 0; while (u < 1) { a = 1; } return a; }
             CompileUnit(<<Main(<<Decl("a"), Assign("a", Lit(0)),
                                  While(Bin("lt", Var("u"), Lit(1)), Block(<<Assign("a", Lit(1))>>)),
                                  Ret(Var("a"))>>)>>)
      [] kind = "left" ->
             \* int main(){ int a; a = 0; a = (u + 1) + (a + 2); return a; }
             CompileUnit(<<Main(<<Decl("a"), Assign("a", Lit(0)),
                                  Assign("a", Bin("add", Bin("add", Var("u"), Lit(1)),
                                                         Bin("add", Var("a"), Lit(2)))),
                                  Ret(Var("a"))>>)>>)
      [] kind = "jump" ->
             \* int main(){ int a; a = 0; if (a < 1) { break; a = 1; } else { a = 2; } return a; }
             CompileUnit(<<Main(<<Decl("a"), Assign("a", Lit(0)),
                                  IfElse(Bin("lt", Var("a"), Lit(1)),
                                                    Block(<<Break, Assign("a", Lit(1))>>),
                                                    Block(<<Assign("a", Lit(2))>>)),
                                  Ret(Var("a"))>>)>>)

FailProgs == {FailProg(kind) : kind \in FailKinds}

\* --- counting loops
CountLimits == {1, 2, 5}

\* int main(){ int x; x = 1; while (x < N) { x = x + 1; } return x; }
CountProg(N) ==
    CompileUnit(<<Main(<<Decl("x"), Assign("x", Lit(1)),
                         While(Bin("lt", Var("x"), Lit(N)),
                               Block(<<Assign("x", Bin("add", Var("x"), Lit(1)))>>)),
                         Ret(Var("x"))>>)>>)

CountProgs == {CountProg(N) : N \in CountLimits}

\* --- binary operators with operands that have instructions of their own
ArithOps == {"add", "sub", "mul", "div", "mod"}

OperandShapes == {"var", "call", "sum", "undeclared"}

\* an operand built on variable x
BinOperand(shape, x) ==
    CASE shape = "var" -> Var(x)
      [] shape = "call" -> Call("id", <<Var(x)>>)
      [] shape = "sum" -> Bin("add", Var(x), Lit(1))
      [] shape = "undeclared" -> Var("u")

\* int main(){ int a,b; int r; a = 2; b = 1; r = L(a) OP R(b); return r; }
BinProg(op, l, r) ==
    CompileUnit(<<IdFunc,
                  Main(<<Decl2("a", "b"), Decl("r"), Assign("a", Lit(2)), Assign("b", Lit(1)),
                         Assign("r", Bin(op, BinOperand(l, "a"), BinOperand(r, "b"))),
                         Ret(Var("r"))>>)>>)

BinProgs ==
    {BinProg(op, l, r) : op \in ArithOps \cup CmpOps, l \in OperandShapes,
                         r \in OperandShapes \ {"undeclared"}}

\* --- assignments whose two sides may each be in error: x and y are declared
\* --- nowhere
AssignTargets == {"r", "x"}

AssignSources == {"lit", "sum", "call", "undeclared", "badsum"}

AssignSource(e) ==
    CASE e = "lit" -> Lit(2)
      [] e = "sum" -> Bin("add", Var("a"), Lit(1))
      [] e = "call" -> Call("id", <<Var("a")>>)
      [] e = "undeclared" -> Var("y")
      [] e = "badsum" -> Bin("add", Var("y"), Lit(1))

\* int main(){ int a; int r; a = 1; L = E; return a; }
AssignProg(l, e) ==
    CompileUnit(<<IdFunc,
                  Main(<<Decl("a"), Decl("r"), Assign("a", Lit(1)), Assign(l, AssignSource(e)),
                         Ret(Var("a"))>>)>>)

AssignProgs == {AssignProg(l, e) : l \in AssignTargets, e \in AssignSources}

\* --- parameters read and written in the body
\* int f(int p, int q){ q = q + p; p = 0; return q; }  int main(){ return f(A, B); }
ParamProg(A, B) ==
    CompileUnit(<<FuncDef("int", "f", <<"p", "q">>,
                          <<Assign("q", Bin("add", Var("q"), Var("p"))), Assign("p", Lit(0)),
                            Ret(Var("q"))>>),
                  Main(<<Ret(Call("f", <<Lit(A), Lit(B)>>))>>)>>)

ParamProgs == {ParamProg(A, B) : A \in Vals, B \in Vals}

\* --- nested short-circuit operators: r = (X op1 b) op2 (Y op3 b) with a = A,
\* b = 1, X and Y the variable a or the comparison a < 1
NestOperands == {"var", "cmp"}

NestOperand(k) == IF k = "var" THEN Var("a") ELSE Bin("lt", Var("a"), Lit(1))

NestProg(op1, op2, op3, k1, k3, A) ==
    CompileUnit(<<Main(<<Decl2("a", "b"), Decl("r"),
                         Assign("a", Lit(A)), Assign("b", Lit(1)),
                         Assign("r", Bin(op2, Bin(op1, NestOperand(k1), Var("b")),
                                              Bin(op3, NestOperand(k3), Var("b")))),
                         Ret(Var("r"))>>)>>)

NestProgs ==
    {NestProg(op1, op2, op3, k1, k3, A) :
        op1 \in {"and", "or"}, op2 \in {"and", "or"}, op3 \in {"and", "or"},
        k1 \in NestOperands, k3 \in NestOperands, A \in Vals}

Programs ==
    UNION {LogicProgs, CondProgs, LoopProgs, OutsideProgs, DupProgs,
           UnresolvedProgs, ArityProgs, CallProgs, NameProgs,
           RecProgs, RetProgs, CmpProgs, RedeclProgs, ShadowProgs,
           FailProgs, CountProgs, BinProgs, AssignProgs, ParamProgs, NestProgs}


(***************************************************************************)
(* Execution of the produced instruction streams: one frame per active     *)
(* call, each with its function, instruction pointer and the values        *)
(* written so far.                                                         *)
(***************************************************************************)
EmptyEnv == [v \in {} |-> 0]

Defined(env, v) == v.k = "const" \/ v \in DOMAIN env

Read(env, v) == IF v.k = "const" THEN v.id ELSE env[v]

Write(env, v, n) == (v :> n) @@ env

Abs(n) == IF n < 0 THEN 0 - n ELSE n

\* C division truncates toward zero
TruncDiv(a, b) ==
    IF (a < 0) = (b < 0) THEN Abs(a) \div Abs(b) ELSE 0 - (Abs(a) \div Abs(b))

Truth(b) == IF b THEN 1 ELSE 0

EvalBinary(bop, a, b) ==
    CASE bop = "add" -> a + b
      [] bop = "sub" -> a - b
      [] bop = "mul" -> a * b
      [] bop = "div" -> TruncDiv(a, b)
      [] bop = "mod" -> a - b * TruncDiv(a, b)
      [] bop = "neg" -> 0 - a
      [] bop = "lt" -> Truth(a < b)
      [] bop = "gt" -> Truth(a > b)
      [] bop = "le" -> Truth(a <= b)
      [] bop = "ge" -> Truth(a >= b)
      [] bop = "eq" -> Truth(a = b)
      [] bop = "ne" -> Truth(a # b)

\* position of the Label instruction a jump names, 0 when the stream has none
LabelPos(code, l) ==
    LET hit == {i \in 1..Len(code) : code[i].op = "label" /\ code[i].id = l.id}
    IN IF l.k # "label" \/ hit = {} THEN 0 ELSE CHOOSE i \in hit : \A j \in hit : i <= j

Stop(why, st) == [pc |-> why, stack |-> st, retval |-> 0]

Goon(st, top) == [pc |-> "running", stack |-> [st EXCEPT ![Len(st)] = top], retval |-> 0]

Jump(st, top, code, l) ==
    IF LabelPos(code, l) = 0 THEN Stop("trap", st)
    ELSE Goon(st, [top EXCEPT !.ip = LabelPos(code, l)])

\* the effect of the instruction the top frame points at
Exec(S, st) ==
    LET top == st[Len(st)]
        code == S.funcs[top.fn].code
        inst == code[top.ip]
        env == top.env
        next == [top EXCEPT !.ip = @ + 1]
    IN IF top.ip > Len(code) THEN Stop("trap", st)
       ELSE CASE inst.op \in {"entry", "label"} -> Goon(st, next)
         [] inst.op = "bin" ->
              IF ~Defined(env, inst.x) \/ (inst.bop # "neg" /\ ~Defined(env, inst.y))
              THEN Stop("undef", st)
              ELSE IF inst.bop \in {"div", "mod"} /\ Read(env, inst.y) = 0
              THEN Stop("trap", st)
              ELSE Goon(st, [next EXCEPT !.env =
                        Write(env, InstVal(inst.id, inst.ty),
                              EvalBinary(inst.bop, Read(env, inst.x),
                                         IF inst.bop = "neg" THEN 0 ELSE Read(env, inst.y)))])
         [] inst.op = "move" ->
              IF inst.x = NoVal THEN Stop("trap", st)
              ELSE IF ~Defined(env, inst.y) THEN Stop("undef", st)
              ELSE Goon(st, [next EXCEPT !.env = Write(env, inst.x, Read(env, inst.y))])
         [] inst.op = "goto" -> Jump(st, top, code, inst.t1)
         [] inst.op = "cgoto" ->
              IF ~Defined(env, inst.x) THEN Stop("undef", st)
              ELSE Jump(st, top, code, IF Read(env, inst.x) # 0 THEN inst.t1 ELSE inst.t2)
         [] inst.op = "call" ->
              LET callee == findFunction(S, inst.fn)
                  formals == S.funcs[callee].params
              IN IF \E i \in 1..Len(inst.args) : ~Defined(env, inst.args[i])
                 THEN Stop("undef", st)
                 ELSE IF callee = 0 \/ Len(formals) # Len(inst.args)
                 THEN Stop("trap", st)
                 ELSE [pc |-> "running",
                       stack |-> Append(st,
                           [fn |-> callee, ip |-> 1,
                            env |-> [p \in {formals[i] : i \in 1..Len(formals)} |->
                                        Read(env, inst.args[p.id])]]),
                       retval |-> 0]
         [] inst.op = "exit" ->
              IF inst.x # NoVal /\ ~Defined(env, inst.x) THEN Stop("undef", st)
              ELSE LET r == IF inst.x = NoVal THEN 0 ELSE Read(env, inst.x)
                   IN IF Len(st) = 1
                      THEN [pc |-> "halted", stack |-> st, retval |-> r]
                      ELSE LET caller == st[Len(st) - 1]
                               call == S.funcs[caller.fn].code[caller.ip]
                           IN [pc |-> "running",
                               stack |-> Append(SubSeq(st, 1, Len(st) - 2),
                                   [caller EXCEPT !.ip = @ + 1,
                                                  !.env = IF inst.x = NoVal THEN @
                                                          ELSE Write(@, InstVal(call.id, call.ty), r)]),
                               retval |-> 0]
         [] OTHER -> Stop("trap", st)

(***************************************************************************)
(* The state machine.                                                      *)
(*   pc: "init" -> Run -> "ok" | "failed";  "ok" -> Start -> "running";    *)
(*       "running" -> Step -> "running" | "halted" | "undef" | "trap"      *)
(***************************************************************************)
\* a compilation unit built directly as an AST has no parse tree of interest
NoTree == [t |-> "none"]

\* the expression trees the parser is run on
UnaryTrees ==
    {LitTree(form, text) : form \in LitForms, text \in LitTexts}
        \cup {Minus(OperandTree(kind)) : kind \in OperandKinds}

\* the parse either completes, or negating INT_MIN traps and nothing is lowered
Init ==
    /\ \/ /\ prog \in Programs
          /\ tree = NoTree
          /\ pc = "init"
       \/ /\ tree \in UnaryTrees
          /\ prog = UnaryProg(tree)
          /\ pc \in IF visitUnaryExp(tree).ub THEN {"init", "aborted"} ELSE {"init"}
    /\ M = M0
    /\ stack = <<>>
    /\ executed = <<>>
    /\ retval = 0

\* IRGenerator::run() on the compilation unit
Run ==
    /\ pc = "init"
    /\ LET r == run(prog)
       IN /\ M' = r.M
          /\ pc' = IF r.ok THEN "ok" ELSE "failed"
    /\ UNCHANGED <<tree, prog, stack, executed, retval>>

\* enter main
Start ==
    /\ pc = "ok"
    /\ findFunction(M, "main") # 0
    /\ stack' = <<[fn |-> findFunction(M, "main"), ip |-> 1, env |-> EmptyEnv]>>
    /\ pc' = "running"
    /\ UNCHANGED <<tree, prog, M, executed, retval>>

\* execute one instruction
Step ==
    /\ pc = "running"
    /\ Len(executed) < MaxSteps
    /\ LET r == Exec(M, stack)
       IN /\ pc' = r.pc
          /\ stack' = r.stack
          /\ retval' = r.retval
    /\ executed' = Append(executed, <<stack[Len(stack)].fn, stack[Len(stack)].ip>>)
    /\ UNCHANGED <<tree, prog, M>>

Next == Run \/ Start \/ Step

Spec == Init /\ [][Next]_vars


(***************************************************************************)
(* Vocabulary of the properties.                                           *)
(***************************************************************************)
Lowered == pc # "init"

Succeeded == pc \notin {"init", "failed"}

Funcs == 1..Len(M.funcs)

CodeOf(f) == M.funcs[f].code

\* instructions created by handler `by` that have been executed so far
ExecutedBy(by) ==
    {i \in 1..Len(executed) : CodeOf(executed[i][1])[executed[i][2]].by = by}

\* truth of the left operand of the LogicProg programs when a = A
LeftTruth(kind, A) ==
    CASE kind = "var" -> A # 0
      [] kind = "cmp" -> A < 1
      [] kind = "not" -> A = 0
      [] kind = "and" -> A # 0
      [] kind = "call" -> A # 0

\* C1: for r = a && b, where b is an expression with instructions of its own:
\* when a is zero b's instructions are not executed and the result is 0; when
\* a is non-zero they are executed and the result is b's truthiness, 1 for
\* every non-zero value of b and 0 for zero.
C1_AndResult ==
    \A kind \in LeftKinds, A \in Vals, B \in Vals :
        (prog = LogicProg("and", kind, A, B) /\ pc = "halted") =>
            /\ (ExecutedBy("ir_add") # {}) = LeftTruth(kind, A)
            /\ retval = IF LeftTruth(kind, A) THEN Truth(B # 0) ELSE 0

\* C2: for r = a || b: when a is non-zero b's instructions are not executed
\* and the result is 1; when a is zero they are executed and the result is
\* b's truthiness.
C2_OrResult ==
    \A kind \in LeftKinds, A \in Vals, B \in Vals :
        (prog = LogicProg("or", kind, A, B) /\ pc = "halted") =>
            /\ (ExecutedBy("ir_add") # {}) = ~LeftTruth(kind, A)
            /\ retval = IF LeftTruth(kind, A) THEN 1 ELSE Truth(B # 0)

\* the conditional jumps of if, if-else, while and of the left operand of && / ||
BranchHandlers == {"ir_if", "ir_if_else", "ir_while", "ir_logic_and", "ir_logic_or"}

\* the instruction at position i branches on a Bool value that the two
\* instructions before it produce: a Bool comparison and its Move
BranchesOnBool(code, i) ==
    /\ code[i].x.ty = "bool"
    /\ i > 2
    /\ code[i - 1].op = "move" /\ code[i - 1].x = code[i].x
    /\ code[i - 2].op = "bin" /\ code[i - 2].ty = "bool"
    /\ code[i - 1].y = InstVal(code[i - 2].id, "bool")

\* C3: every conditional jump of an if, if-else or while condition and of the
\* left operand of && / || branches on a value of type Bool; a condition value
\* that is not Bool goes through a not-equal-zero comparison placed directly
\* before the jump, and the jump uses that comparison's result.
C3_BranchOnBool ==
    Succeeded =>
        \A f \in Funcs : \A i \in 1..Len(CodeOf(f)) :
            (CodeOf(f)[i].op = "cgoto" /\ CodeOf(f)[i].by \in BranchHandlers)
                => BranchesOnBool(CodeOf(f), i)


RECURSIVE SumSeq(_)

SumSeq(s) == IF s = <<>> THEN 0 ELSE Head(s) + SumSeq(Tail(s))

RECURSIVE CountOp(_, _)

\* number of nodes with operator op in the tree under node
CountOp(node, op) ==
    (IF node.op = op THEN 1 ELSE 0)
    + SumSeq([i \in 1..Len(node.sons) |-> CountOp(node.sons[i], op)])

\* number of instructions created by handler `by` in all streams
EmittedBy(by) ==
    SumSeq([f \in Funcs |-> Cardinality({i \in 1..Len(CodeOf(f)) : CodeOf(f)[i].by = by})])

\* a while loop in a stream, named by the position of its jump back to the
\* condition label; the loop's end label is the next instruction
WhileLoops(code) ==
    {q \in 1..Len(code) : code[q].op = "goto" /\ code[q].by = "ir_while"}

\* the loops whose text, condition label to jump back, contains position p
Enclosing(code, p) ==
    {q \in WhileLoops(code) : LabelPos(code, code[q].t1) > 0
                              /\ LabelPos(code, code[q].t1) < p /\ p < q}

InnermostLoop(code, p) ==
    CHOOSE q \in Enclosing(code, p) : \A r \in Enclosing(code, p) : q <= r

JumpsToInnermost(code, p) ==
    /\ code[p].op = "goto"
    /\ Enclosing(code, p) # {}
    /\ LET q == InnermostLoop(code, p)
       IN /\ q < Len(code) /\ code[q + 1].op = "label"
          /\ code[p].by = "ir_break" => code[p].t1 = LabelVal(code[q + 1].id)
          /\ code[p].by = "ir_continue" => code[p].t1 = code[q].t1

\* C4: a break jumps to the end label and a continue to the condition label of
\* the innermost while loop that encloses it, also after an inner loop of the
\* same body has ended; every break and continue of a lowered program is
\* such a jump.
C4_JumpsToInnermostLoop ==
    Lowered =>
        /\ \A f \in Funcs : \A p \in 1..Len(CodeOf(f)) :
               CodeOf(f)[p].by \in {"ir_break", "ir_continue"}
                   => JumpsToInnermost(CodeOf(f), p)
        /\ Succeeded => /\ EmittedBy("ir_break") = CountOp(prog, "break")
                        /\ EmittedBy("ir_continue") = CountOp(prog, "continue")

\* a break of the outer loop that follows a finished inner loop has been lowered
C4_Witness ==
    /\ pc = "ok"
    /\ prog = LoopProg(2, <<"continue", "break">>)
    /\ \E p \in 1..Len(CodeOf(1)) :
           /\ CodeOf(1)[p].by = "ir_break"
           /\ Cardinality(Enclosing(CodeOf(1), p)) = 1
           /\ \E q \in WhileLoops(CodeOf(1)) : q < p

\* the events of one operator in the lowering history
Returns(op) ==
    {i \in 1..Len(M.log) : M.log[i].ev = "return" /\ M.log[i].op = op}

\* C5: a break or continue that no while loop of its function encloses makes
\* its handler report failure, the run fails and no jump is emitted for it.
C5_OutsideLoopFails ==
    \A kind \in OutsideKinds, J \in {Break, Continue} :
        (prog = OutsideProg(kind, J) /\ Lowered) =>
            /\ pc = "failed"
            /\ \E i \in Returns(J.op) : ~M.log[i].ok /\ M.log[i].ctx0.brk = NoVal
            /\ LET main == findFunction(M, "main")
               IN \A p \in 1..Len(CodeOf(main)) :
                      CodeOf(main)[p].by \notin {"ir_break", "ir_continue"}

\* a break placed after a finished loop has been refused
C5_Witness ==
    /\ pc = "failed"
    /\ prog = OutsideProg("afterloop", Break)
    /\ \E i \in Returns("break") : ~M.log[i].ok

\* the handlers that change the current function, the scope depth or the
\* break / continue labels
ContextOps == {"func_def", "block", "while"}

\* C6: a handler that changes the ambient context (current function, scope
\* depth, break / continue labels) returns with the context it was entered
\* with, whether it succeeds or fails.
C6_ContextRestored ==
    \A i \in 1..Len(M.log) :
        (M.log[i].ev = "return" /\ M.log[i].op \in ContextOps)
            => M.log[i].ctx = M.log[i].ctx0


OpCount(code, op) == Cardinality({i \in 1..Len(code) : code[i].op = op})

\* the stream starts with its only Entry and ends with the function's exit
\* label followed by its only Exit
WellBracketed(f) ==
    LET code == CodeOf(f)
    IN /\ Len(code) >= 3
       /\ code[1].op = "entry" /\ OpCount(code, "entry") = 1
       /\ code[Len(code)].op = "exit" /\ OpCount(code, "exit") = 1
       /\ code[Len(code) - 1].op = "label"
       /\ LabelVal(code[Len(code) - 1].id) = M.funcs[f].exitLabel

\* C7: after a successful run every function's stream has exactly one Entry,
\* at its start, and exactly one Exit, at its end, preceded by the function's
\* single exit label.
C7_OneEntryOneExit ==
    Succeeded => \A f \in Funcs : WellBracketed(f)

\* C8: a second definition of a function name, main included, makes the run
\* fail; the second body is not lowered into the stream of the first.
C8_DuplicateFails ==
    \A kind \in DupKinds :
        (prog = DupProg(kind) /\ Lowered) =>
            /\ pc = "failed"
            /\ \A f \in Funcs : OpCount(CodeOf(f), "entry") <= 1

Enters(op) ==
    {i \in 1..Len(M.log) : M.log[i].ev = "enter" /\ M.log[i].op = op}

\* C9: a name that resolves to no variable in an enclosing scope frame, and a
\* call of a name that is no registered function, make the run fail; nothing
\* is emitted for the statement, and the call fails before any of its
\* arguments is lowered.
C9_UnresolvedFails ==
    \A kind \in UnresolvedKinds :
        (prog = UnresolvedProg(kind) /\ Lowered) =>
            LET main == findFunction(M, "main")
            IN /\ pc = "failed"
               /\ \A p \in 1..Len(CodeOf(main)) :
                      CodeOf(main)[p].by \notin {"ir_assign", "ir_return", "ir_function_call"}
               /\ kind \in {"call", "callarg"} =>
                      /\ \E i \in Returns("call") : ~M.log[i].ok
                      /\ Cardinality(Enters("call")) = 1
                      /\ Enters("uint") = {}
                      /\ ~M.funcs[main].existFuncCall

\* the call of an unregistered function whose argument is itself a call has
\* been refused
C9_Witness ==
    /\ pc = "failed"
    /\ prog = UnresolvedProg("callarg")
    /\ \E i \in Returns("call") : ~M.log[i].ok

\* C10: a call whose argument count differs from the parameter count of the
\* registered prototype makes the run fail and no Call instruction is emitted,
\* wherever the callee is defined.
C10_ArityMismatchFails ==
    \A place \in CalleePlaces, p \in 0..MaxVal, n \in 0..MaxVal :
        (p # n /\ prog = ArityProg(place, p, n) /\ Lowered) =>
            /\ Len(M.funcs[findFunction(M, "g")].params) = p
            /\ pc = "failed"
            /\ \E i \in Returns("call") : ~M.log[i].ok
            /\ EmittedBy("ir_function_call") = 0

\* a call with one argument of a function defined later with two parameters
\* has been refused
C10_Witness ==
    /\ pc = "failed"
    /\ prog = ArityProg("after", 2, 1)
    /\ Len(M.funcs[findFunction(M, "g")].params) = 2
    /\ \E i \in Returns("call") : ~M.log[i].ok


\* number of instructions the argument kinds of CallProg lower to
ArgLen(kind) == IF kind \in {"add", "call"} THEN 1 ELSE 0

\* position in the stream of the instruction of argument i, the call being at c
ArgPos(kinds, i, c) ==
    c - SumSeq([j \in 1..Len(kinds) |-> IF j >= i THEN ArgLen(kinds[j]) ELSE 0])

\* argument i of the call at c is the value of its expression, and the
\* expression's instruction stands at its place before the call
ArgLowered(code, kinds, i, c, a) ==
    LET p == ArgPos(kinds, i, c)
        v == code[c].args[i]
    IN CASE kinds[i] = "lit" -> v = ConstInt(i)
         [] kinds[i] = "var" -> v = a
         [] kinds[i] = "add" ->
               /\ code[p] = BinaryInstruction(code[p].id, "add", a, ConstInt(i), "int", "ir_add")
               /\ v = InstVal(code[p].id, "int")
         [] kinds[i] = "call" ->
               /\ code[p] = FuncCallInstruction(code[p].id, "id", <<ConstInt(i)>>, "int",
                                                "ir_function_call")
               /\ v = InstVal(code[p].id, "int")

\* C11: a call with as many arguments as the callee has parameters lowers to
\* the arguments' instructions in source order followed by one Call whose
\* operands are the arguments' values in that order, whose type is the
\* callee's return type and which is the value of the call expression.
C11_CallFragment ==
    \A k \in 0..MaxVal : \A kinds \in [1..k -> ArgKinds] :
        (prog = CallProg(kinds) /\ Lowered) =>
            /\ pc # "failed"
            /\ LET main == findFunction(M, "main")
                   code == CodeOf(main)
                   calls == {c \in 1..Len(code) : code[c].op = "call" /\ code[c].fn = "g"}
               IN /\ Cardinality(calls) = 1
                  /\ \A c \in calls :
                        LET first == ArgPos(kinds, 1, c)
                        IN /\ code[c].ty = M.funcs[findFunction(M, "g")].retType
                           /\ Len(code[c].args) = k
                           /\ first > 1 /\ code[first - 1].by = "ir_assign"
                           /\ \A i \in 1..k :
                                  ArgLowered(code, kinds, i, c, code[first - 1].x)
                           /\ code[c + 1].by = "ir_return"
                           /\ code[c + 1].op = "move"
                           /\ code[c + 1].y = InstVal(code[c].id, code[c].ty)

\* g(a + 1, id(2)) has been lowered and run
C11_Witness ==
    /\ pc = "halted"
    /\ prog = CallProg(<<"add", "call">>)
    /\ \E c \in 1..Len(CodeOf(findFunction(M, "main"))) :
           /\ CodeOf(findFunction(M, "main"))[c].fn = "g"
           /\ Len(CodeOf(findFunction(M, "main"))[c].args) = 2


\* C12: the parameters registered for a function are those of its definition,
\* same count, names and order, whatever the function is called: a call with
\* as many arguments as the definition declares lowers, and the body gets one
\* parameter-bind Move per declared parameter (none for an empty list).
C12_RegisteredAsDeclared ==
    \A name \in FuncNames, p \in 0..MaxVal :
        (prog = NameProg(name, p) /\ Lowered) =>
            LET f == findFunction(M, name)
                params == M.funcs[f].params
            IN /\ [i \in 1..Len(params) |-> params[i].name] = ParamNames(p)
               /\ pc # "failed"
               /\ Cardinality({i \in 1..Len(CodeOf(f)) :
                                  CodeOf(f)[i].by = "ir_function_formal_params"}) = p


\* the names of the functions the compilation unit defines
DefinedNames == {prog.sons[i].sons[2].name : i \in {j \in 1..Len(prog.sons) : prog.sons[j].op = "func_def"}}

\* the value RecProg(kind, N) returns
RecResult(kind, N) ==
    CASE kind = "forward" -> N + 1
      [] kind = "self" -> N
      [] kind = "mutual" -> IF N % 2 = 0 THEN 1 ELSE 0

\* C13: when the lowering of any function definition starts, every function
\* the compilation unit defines is registered; a call of a function defined
\* later, a self-recursive call and calls between two mutually recursive
\* functions lower successfully and the program runs to its result.
C13_RegisteredBeforeBodies ==
    /\ \A i \in Enters("func_def") : M.log[i].known = DefinedNames
    /\ \A kind \in RecKinds, N \in Vals :
           (prog = RecProg(kind, N) /\ Lowered) =>
               /\ pc # "failed"
               /\ pc = "halted" => retval = RecResult(kind, N)

\* even(MaxVal), which calls odd defined after it, has run to its result
C13_Witness ==
    /\ pc = "halted"
    /\ prog = RecProg("mutual", MaxVal)
    /\ Cardinality({i \in 1..Len(executed) :
                       CodeOf(executed[i][1])[executed[i][2]].op = "call"}) = MaxVal + 1


\* position p of the stream of f holds the jump of a return statement: it
\* targets the exit label of f, and the Move into the return-value local of f
\* stands directly before it exactly when f is not void
ReturnJump(f, p) ==
    LET code == CodeOf(f)
        moved == p > 1 /\ code[p - 1].by = "ir_return" /\ code[p - 1].op = "move"
    IN /\ code[p].t1 = M.funcs[f].exitLabel
       /\ M.funcs[f].exitLabel # NoVal
       /\ moved = (M.funcs[f].retType # "void")
       /\ moved => /\ code[p - 1].x = M.funcs[f].retValue
                   /\ code[p - 1].x # NoVal
                   /\ code[p - 1].y # NoVal

\* C14: every return lowers to the value's instructions, a Move of the value
\* into the function's return-value local and a Goto to the function's exit
\* label; the Move is there exactly when the function is not void, never with
\* a missing destination, and the Goto is always there.
C14_ReturnLowering ==
    Succeeded =>
        /\ \A f \in Funcs : \A p \in 1..Len(CodeOf(f)) :
               /\ (CodeOf(f)[p].by = "ir_return" /\ CodeOf(f)[p].op = "goto")
                      => ReturnJump(f, p)
               /\ (CodeOf(f)[p].by = "ir_return" /\ CodeOf(f)[p].op = "move")
                      => /\ p < Len(CodeOf(f))
                         /\ CodeOf(f)[p + 1].by = "ir_return"
                         /\ CodeOf(f)[p + 1].op = "goto"
        /\ Cardinality({fp \in Funcs \X (1..MaxSteps) :
                           /\ fp[2] <= Len(CodeOf(fp[1]))
                           /\ CodeOf(fp[1])[fp[2]].by = "ir_return"
                           /\ CodeOf(fp[1])[fp[2]].op = "goto"})
               = CountOp(prog, "return")


CmpHandlers == {"ir_lt", "ir_gt", "ir_le", "ir_ge", "ir_eq", "ir_ne"}

CmpHolds(op, A, B) ==
    CASE op = "lt" -> A < B
      [] op = "gt" -> A > B
      [] op = "le" -> A <= B
      [] op = "ge" -> A >= B
      [] op = "eq" -> A = B
      [] op = "ne" -> A # B

\* the comparison at position p has type Bool and the next instruction moves
\* it into a Bool temporary that nothing else writes
ComparisonMoved(code, p) ==
    /\ code[p].ty = "bool"
    /\ p < Len(code)
    /\ code[p + 1].op = "move"
    /\ code[p + 1].y = InstVal(code[p].id, "bool")
    /\ code[p + 1].x.ty = "bool"
    /\ code[p + 1].x.k = "local" /\ code[p + 1].x.name = ""
    /\ \A q \in 1..Len(code) :
           (code[q].op = "move" /\ code[q].x = code[p + 1].x) => q = p + 1

\* C15: each of <, >, <=, >=, ==, != lowers to a comparison of type Bool
\* directly followed by a Move of the comparison into a fresh Bool temporary,
\* and that temporary is the value of the expression.
C15_ComparisonIsBool ==
    /\ Lowered =>
           \A f \in Funcs : \A p \in 1..Len(CodeOf(f)) :
               (CodeOf(f)[p].op = "bin" /\ CodeOf(f)[p].by \in CmpHandlers)
                   => ComparisonMoved(CodeOf(f), p)
    /\ \A op \in CmpOps, A \in Vals, B \in Vals :
           (prog = CmpProg(op, A, B) /\ Lowered) =>
               LET code == CodeOf(1)
                   cmps == {p \in 1..Len(code) : code[p].op = "bin"}
               IN /\ pc # "failed"
                  /\ Cardinality(cmps) = 1
                  /\ \A p \in cmps :
                         /\ code[p].bop = op
                         /\ code[p + 2].by = "ir_assign"
                         /\ code[p + 2].y = code[p + 1].x
                  /\ pc = "halted" => retval = Truth(CmpHolds(op, A, B))

\* a <= b has been lowered and run with a = b
C15_Witness ==
    /\ pc = "halted"
    /\ prog = CmpProg("le", 1, 1)
    /\ retval = 1
    /\ \E p \in 1..Len(CodeOf(1)) : CodeOf(1)[p].by = "ir_le"


(***************************************************************************)
(* Integer literals and unary minus.                                       *)
(***************************************************************************)
\* the 32 bits each literal text denotes, as halves and as an int32_t
LitTable ==
    (<<"0">> :> [bits |-> <<0, 0>>, int |-> 0])
    @@ (<<"7">> :> [bits |-> <<0, 7>>, int |-> 7])
    @@ (<<"1", "0">> :> [bits |-> <<0, 10>>, int |-> 10])
    @@ (<<"0", "1", "0">> :> [bits |-> <<0, 8>>, int |-> 8])
    @@ (<<"0", "0">> :> [bits |-> <<0, 0>>, int |-> 0])
    @@ (<<"0", "x", "1", "0">> :> [bits |-> <<0, 16>>, int |-> 16])
    @@ (<<"0", "X", "1", "f">> :> [bits |-> <<0, 31>>, int |-> 31])
    @@ (<<"0", "x", "A">> :> [bits |-> <<0, 10>>, int |-> 10])
    @@ (<<"2", "1", "4", "7", "4", "8", "3", "6", "4", "7">>
            :> [bits |-> <<32767, 65535>>, int |-> MaxInt32])
    @@ (<<"2", "1", "4", "7", "4", "8", "3", "6", "4", "8">>
            :> [bits |-> <<32768, 0>>, int |-> MinInt32])
    @@ (<<"4", "2", "9", "4", "9", "6", "7", "2", "9", "5">>
            :> [bits |-> <<65535, 65535>>, int |-> 0 - 1])
    @@ (<<"0", "x", "8", "0", "0", "0", "0", "0", "0", "0">>
            :> [bits |-> <<32768, 0>>, int |-> MinInt32])
    @@ (<<"0", "X", "F", "F", "f", "f", "F", "F", "f", "f">>
            :> [bits |-> <<65535, 65535>>, int |-> 0 - 1])
    @@ (<<"0", "3", "7", "7", "7", "7", "7", "7", "7", "7", "7", "7">>
            :> [bits |-> <<65535, 65535>>, int |-> 0 - 1])
    @@ (<<"0", "2", "0", "0", "0", "0", "0", "0", "0", "0", "0", "1">>
            :> [bits |-> <<32768, 1>>, int |-> 0 - MaxInt32])

MainCode == CodeOf(findFunction(M, "main"))

\* position of the Move of `a = 1;` and of the Move of the return statement
\* in main's stream
AssignPos == CHOOSE q \in 1..Len(MainCode) : MainCode[q].by = "ir_assign"

ReturnPos == CHOOSE p \in 1..Len(MainCode) : MainCode[p].by = "ir_return" /\ MainCode[p].op = "move"

\* the return statement moves the constant n and its expression emitted
\* no instruction
ReturnsConstant(n) ==
    /\ Cardinality({q \in 1..Len(MainCode) : MainCode[q].by = "ir_assign"}) = 1
    /\ Cardinality({p \in 1..Len(MainCode) : MainCode[p].by = "ir_return" /\ MainCode[p].op = "move"}) = 1
    /\ ReturnPos = AssignPos + 1
    /\ MainCode[ReturnPos].y = ConstInt(n)
    /\ pc = "halted" => retval = n


RECURSIVE Signs(_)

\* number of minus signs of a parse tree, and the operand under them
Signs(ctx) ==
    CASE ctx.t = "minus" -> 1 + Signs(ctx.e)
      [] ctx.t = "paren" -> Signs(ctx.e)
      [] OTHER -> 0

RECURSIVE Innermost(_)

Innermost(ctx) == IF ctx.t \in {"minus", "paren"} THEN Innermost(ctx.e) ELSE ctx

\* 32-bit two's-complement negation
Neg32(n) == IF n = MinInt32 THEN MinInt32 ELSE 0 - n

\* instructions of each non-literal operand, and the value of its negation
\* when a = 1
OperandInsts(kind) == IF kind = "var" THEN 0 ELSE 1

NegValue(kind) ==
    CASE kind = "var" -> 0 - 1
      [] kind = "sum" -> 0 - 2
      [] kind = "call" -> 0 - 1
      [] kind = "minus" -> 1

\* one negate instruction directly after the operand's instructions, and its
\* result is what the return statement moves
NegEmitted(kind) ==
    LET n == OperandInsts(kind)
        p == ReturnPos
        operand == IF n = 0 THEN MainCode[AssignPos].x ELSE InstVal(MainCode[p - 2].id, "int")
    IN /\ p = AssignPos + n + 2
       /\ MainCode[p - 1] = BinaryInstruction(MainCode[p - 1].id, "neg", operand, NoVal, "int", "ir_neg")
       /\ MainCode[p].y = InstVal(MainCode[p - 1].id, "int")
       /\ EmittedBy("ir_neg") = 1 + (IF kind = "minus" THEN 1 ELSE 0)
       /\ pc = "halted" => retval = NegValue(kind)

\* C16: one or two minus signs on a literal n give a single constant, the
\* 32-bit two's-complement negation of n (n itself after two signs), and no
\* instruction; a minus on an operand that is no literal emits exactly one
\* negate instruction after the operand's instructions.
C16_MinusLowering ==
    tree.t = "minus" =>
        /\ pc # "aborted"
        /\ pc \notin {"init", "aborted"} =>
              /\ pc # "failed"
              /\ Innermost(tree).t = "digit" =>
                    LET n == LitTable[Innermost(tree).text].int
                    IN /\ ReturnsConstant(IF Signs(tree) = 1 THEN Neg32(n) ELSE n)
                       /\ EmittedBy("ir_neg") = 0
              /\ \A kind \in OperandKinds :
                    tree = Minus(OperandTree(kind)) => NegEmitted(kind)

\* the same without the parse that stops inside the negation of INT_MIN
C16_WhenNotAborted == pc # "aborted" => C16_MinusLowering

\* C17: a literal is read in base 16 after 0x or 0X, in base 8 after another
\* leading 0 of a longer text, in base 10 otherwise; its AST node holds the
\* value as 32 unsigned bits and it lowers to one constant with these bits.
C17_LiteralByPrefix ==
    (tree.t = "digit" /\ pc # "init") =>
        /\ prog = CompileUnit(<<IdFunc,
                      Main(<<Decl("a"), Assign("a", Lit(1)),
                             Ret([Node("uint", <<>>) EXCEPT !.ival = LitTable[tree.text].bits])>>)>>)
        /\ pc # "failed"
        /\ ReturnsConstant(LitTable[tree.text].int)

C17_Witness ==
    /\ tree.t = "digit"
    /\ tree.text \in {<<"0", "X", "F", "F", "f", "f", "F", "F", "f", "f">>,
                      <<"0", "3", "7", "7", "7", "7", "7", "7", "7", "7", "7", "7">>}
    /\ pc = "halted"
    /\ retval = 0 - 1


(***************************************************************************)
(* Declarations and scope frames.                                          *)
(***************************************************************************)
\* positions of the Moves of the assignments in main's stream, in order
AssignMoves == {q \in 1..Len(MainCode) : MainCode[q].by = "ir_assign"}

NthAssign(n) ==
    CHOOSE q \in AssignMoves : Cardinality({x \in AssignMoves : x < q}) = n - 1

\* the inner block writes and reads its own `a`; the return statement reads
\* the outer one
ShadowResolved(A, B) ==
    LET outer == MainCode[NthAssign(1)].x
        inner == MainCode[NthAssign(2)].x
        sum == MainCode[ReturnPos - 1]
    IN /\ Cardinality(AssignMoves) = 3
       /\ outer.name = "a" /\ inner.name = "a" /\ outer # inner
       /\ MainCode[NthAssign(3)].y = inner
       /\ sum.by = "ir_add" /\ sum.y = outer
       /\ pc = "halted" => retval = B + B + A

\* C18: declaring a name already declared in the innermost frame (twice in
\* one block, or a local of the body's top level named like a parameter) makes
\* lowering fail; a name of an outer frame may be declared again in an inner
\* block, where it resolves to the inner Value, and to the outer one after it.
C18_Redeclaration ==
    Lowered =>
        /\ prog \in RedeclProgs => pc = "failed"
        /\ \A A \in Vals, B \in Vals :
               prog = ShadowProg(A, B) => (pc # "failed" /\ ShadowResolved(A, B))

\* the part about shadowing alone
C18_ShadowingAllowed ==
    Lowered =>
        \A A \in Vals, B \in Vals :
            prog = ShadowProg(A, B) => (pc # "failed" /\ ShadowResolved(A, B))


(***************************************************************************)
(* Failure of a node.                                                      *)
(***************************************************************************)
\* the first failed return of the lowering history, 0 when there is none
FirstFailure ==
    LET failed == {i \in 1..Len(M.log) : M.log[i].ev = "return" /\ ~M.log[i].ok}
    IN IF failed = {} THEN 0 ELSE CHOOSE i \in failed : \A j \in failed : i <= j

\* number of nodes entered and not yet returned after the first i events
OpenAt(i) ==
    Cardinality({j \in 1..i : M.log[j].ev = "enter"})
    - Cardinality({j \in 1..i : M.log[j].ev = "return"})

\* C19: when the lowering of a node fails, no node is entered afterwards
\* (no later statement, argument, operand or top-level definition), every
\* node open at that moment, up to the compilation unit, returns failure,
\* and run() returns false.
C19_FailureAborts ==
    (Lowered /\ pc # "aborted" /\ FirstFailure # 0) =>
        /\ pc = "failed"
        /\ \A j \in FirstFailure..Len(M.log) : M.log[j].ev = "return" /\ ~M.log[j].ok
        /\ Len(M.log) - FirstFailure = OpenAt(FirstFailure)
        /\ M.log[Len(M.log)].op = "compile_unit"

C19_Witness ==
    /\ prog = FailProg("nested")
    /\ pc = "failed"
    /\ FirstFailure # 0
    /\ M.log[FirstFailure].op = "var" /\ M.log[FirstFailure].name = "u"
    /\ OpenAt(FirstFailure) = 7


(***************************************************************************)
(* What a failed run leaves in the module.                                 *)
(***************************************************************************)
\* the functions whose definition was entered and returned failure: the
\* current function is still the failed one when ir_function_define returns
FailedFuncs ==
    {M.log[i].ctx.cur : i \in {j \in Returns("func_def") : ~M.log[j].ok}} \ {0}

\* C20: after a failed run no function holds a partial instruction stream;
\* the stream of the function whose body failed to lower is empty, without
\* Entry and without a Move binding a parameter.
C20_NoPartialStream ==
    pc = "failed" =>
        /\ \A f \in Funcs : CodeOf(f) = <<>> \/ WellBracketed(f)
        /\ \A f \in FailedFuncs : CodeOf(f) = <<>>

\* what the failed function's stream holds instead: its Entry and one Move
\* for each of its parameters
C20_EntryAndBindsLeft ==
    pc = "failed" =>
        /\ FailedFuncs # {}
        /\ \A f \in FailedFuncs :
               /\ Len(CodeOf(f)) = 1 + Len(M.funcs[f].params)
               /\ CodeOf(f)[1].op = "entry"
               /\ \A i \in 2..Len(CodeOf(f)) : CodeOf(f)[i].by = "ir_function_formal_params"

(***************************************************************************)
(* The while loop at run time.                                             *)
(***************************************************************************)
\* the instruction executed at step i
ExecutedInst(i) == CodeOf(executed[i][1])[executed[i][2]]

\* the steps that pass the body label of a while loop: the label that is the
\* true target of the loop's conditional jump
BodyPasses ==
    {i \in 1..Len(executed) :
        /\ ExecutedInst(i).op = "label"
        /\ \E q \in 1..Len(CodeOf(executed[i][1])) :
              /\ CodeOf(executed[i][1])[q].op = "cgoto"
              /\ CodeOf(executed[i][1])[q].by = "ir_while"
              /\ CodeOf(executed[i][1])[q].t1 = LabelVal(ExecutedInst(i).id)}

\* the steps that evaluate a comparison of ir_lt
CondEvaluations ==
    {i \in 1..Len(executed) : ExecutedInst(i).op = "bin" /\ ExecutedInst(i).by = "ir_lt"}

\* C21: the stream of `int main(){ int x; x = 1; while (x < N) { x = x + 1; }
\* return x; }`, N = 5 in particular, runs from Entry to Exit without fault;
\* it passes the loop's body label N - 1 times, evaluates the condition N
\* times, and the return-value local carried by Exit holds N.
C21_CountingLoop ==
    \A N \in CountLimits :
        (prog = CountProg(N) /\ Lowered) =>
            /\ pc \notin {"failed", "trap", "undef"}
            /\ Len(executed) < MaxSteps
            /\ executed # <<>> =>
                  /\ executed[1] = <<findFunction(M, "main"), 1>>
                  /\ ExecutedInst(1).op = "entry"
            /\ pc = "halted" =>
                  /\ ExecutedInst(Len(executed)).op = "exit"
                  /\ ExecutedInst(Len(executed)).x = M.funcs[findFunction(M, "main")].retValue
                  /\ Cardinality(BodyPasses) = N - 1
                  /\ Cardinality(CondEvaluations) = N
                  /\ retval = N

C21_Witness ==
    /\ prog = CountProg(5)
    /\ pc = "halted"
    /\ Cardinality(BodyPasses) = 4
    /\ Cardinality(CondEvaluations) = 5
    /\ retval = 5


\* the handlers of statements; the instructions of a condition are made by
\* none of them
StatementHandlers ==
    {"ir_assign", "ir_return", "ir_if", "ir_if_else", "ir_while", "ir_break", "ir_continue",
     "ir_function_define", "ir_function_formal_params"}

\* the conditional jump of the loop whose jump back is at g: the one of
\* ir_while whose false target is the label after g
LoopBranch(code, g) ==
    CHOOSE q \in 1..g : /\ code[q].op = "cgoto" /\ code[q].by = "ir_while"
                        /\ code[q].t2 = LabelVal(code[g + 1].id)

\* the fragment of the loop whose jump back is at g: cond-label, the
\* condition's instructions, CondGoto(body-label, end-label), body-label, the
\* body, Goto(cond-label), end-label; jumps to its labels come from inside
WhileShape(code, g) ==
    LET c == LabelPos(code, code[g].t1)
    IN /\ c > 0 /\ c < g /\ g < Len(code)
       /\ code[c].by = "ir_while"
       /\ code[g + 1].op = "label" /\ code[g + 1].by = "ir_while"
       /\ Cardinality({q \in 1..Len(code) : /\ code[q].op = "cgoto" /\ code[q].by = "ir_while"
                                            /\ code[q].t2 = LabelVal(code[g + 1].id)}) = 1
       /\ LET q == LoopBranch(code, g)
          IN /\ c < q /\ q + 1 < g
             /\ code[q + 1].op = "label" /\ code[q + 1].by = "ir_while"
             /\ code[q].t1 = LabelVal(code[q + 1].id)
             /\ \A i \in (c + 1)..(q - 1) : code[i].by \notin StatementHandlers
             /\ \A i \in 1..Len(code) :
                   /\ (code[i].t1 = code[q].t1 \/ code[i].t2 = code[q].t1) => i = q
                   /\ (code[i].t1 = code[g].t1 \/ code[i].t2 = code[g].t1)
                         => (i = g \/ (q < i /\ i < g /\ code[i].by = "ir_continue"))
                   /\ (code[i].t1 = code[q].t2 \/ code[i].t2 = code[q].t2)
                         => (i = q \/ (q < i /\ i < g /\ code[i].by = "ir_break"))

\* the stream of main of CountProg, instruction by instruction
CountShape ==
    <<<<"entry", "ir_function_define">>, <<"move", "ir_assign">>,
      <<"label", "ir_while">>, <<"bin", "ir_lt">>, <<"move", "ir_lt">>, <<"cgoto", "ir_while">>,
      <<"label", "ir_while">>, <<"bin", "ir_add">>, <<"move", "ir_assign">>, <<"goto", "ir_while">>,
      <<"label", "ir_while">>, <<"move", "ir_return">>, <<"goto", "ir_return">>,
      <<"label", "ir_function_define">>, <<"exit", "ir_function_define">>>>

\* the steps at which the frame of function f executes position p
Passes(f, p) == {i \in 1..Len(executed) : executed[i] = <<f, p>>}

\* every pass of the body label has a pass of the condition label of its own
\* before it, and a continue is followed by the condition label
ConditionFirst(f, g) ==
    LET code == CodeOf(f)
        c == LabelPos(code, code[g].t1)
        b == LoopBranch(code, g) + 1
    IN /\ \A i \in Passes(f, b) :
             /\ executed[i - 1] = <<f, b - 1>>
             /\ \E j \in Passes(f, c) : j < i /\ \A k \in Passes(f, b) : ~(j < k /\ k < i)
       /\ \A i \in 1..(Len(executed) - 1) :
             (executed[i][1] = f /\ code[executed[i][2]].by = "ir_continue"
                 /\ InnermostLoop(code, executed[i][2]) = g)
                 => executed[i + 1] = <<f, c>>

\* C22: a while loop lowers to cond-label, the condition, a CondGoto to
\* body-label or end-label, body-label, the body, a Goto to cond-label,
\* end-label; the condition is executed before every pass of the body and
\* after every continue, and a condition that is false at first, as in
\* while (0), lets execution pass the cond-label once, the body-label never,
\* and go on at the end-label.
C22_WhileFragment ==
    Succeeded =>
        /\ SumSeq([f \in Funcs |-> Cardinality(WhileLoops(CodeOf(f)))]) = CountOp(prog, "while")
        /\ \A f \in Funcs : \A g \in WhileLoops(CodeOf(f)) :
               WhileShape(CodeOf(f), g) /\ ConditionFirst(f, g)
        /\ \A N \in CountLimits :
               prog = CountProg(N) =>
                   [i \in 1..Len(MainCode) |-> <<MainCode[i].op, MainCode[i].by>>] = CountShape
        /\ \A kind \in {"lit", "var"} :
               (prog = CondProg("while", kind, 0) /\ pc = "halted") =>
                   LET f == findFunction(M, "main")
                       g == CHOOSE g \in WhileLoops(CodeOf(f)) : TRUE
                   IN /\ Cardinality(Passes(f, LabelPos(CodeOf(f), CodeOf(f)[g].t1))) = 1
                      /\ Passes(f, LoopBranch(CodeOf(f), g) + 1) = {}
                      /\ Cardinality(Passes(f, g + 1)) = 1
                      /\ retval = 0

\* a loop whose body ended in a continue and was entered again, and a
\* while (0) that ended
C22_Witness ==
    \/ /\ prog = LoopProg(1, <<"continue">>)
       /\ pc = "halted"
       /\ Cardinality(ExecutedBy("ir_continue")) = MaxVal
    \/ /\ prog = CondProg("while", "lit", 0)
       /\ pc = "halted"
       /\ retval = 0


(***************************************************************************)
(* Operands.                                                               *)
(***************************************************************************)
\* the Values an instruction reads
Uses(inst) ==
    CASE inst.op = "bin" -> {inst.x, inst.y}
      [] inst.op \in {"move"} -> {inst.y}
      [] inst.op \in {"cgoto", "exit"} -> {inst.x}
      [] inst.op = "call" -> {inst.args[i] : i \in 1..Len(inst.args)}
      [] OTHER -> {}

\* the instruction results read at position i are results of Binary or Call
\* instructions standing before i
ProducedEarlier(code, i) ==
    \A v \in Uses(code[i]) :
        v.k = "inst" =>
            \E j \in 1..(i - 1) : /\ code[j].op \in {"bin", "call"}
                                  /\ v = InstVal(code[j].id, code[j].ty)

\* C23: in the streams of a successful run every operand that is the result
\* of an instruction is produced by a Binary or Call instruction standing
\* earlier in the same stream, and no execution reads a Value before it has
\* been produced; this holds for operands used on one side of && / || only
\* and for the result temporary read after the end label.
C23_ProducedBeforeUse ==
    Succeeded =>
        /\ \A f \in Funcs : \A i \in 1..Len(CodeOf(f)) : ProducedEarlier(CodeOf(f), i)
        /\ pc # "undef"

\* the right operand of && has been executed and its result used
C23_Witness ==
    /\ prog = LogicProg("and", "call", 1, 1)
    /\ pc = "halted"
    /\ ExecutedBy("ir_add") # {}
    /\ \E i \in 1..Len(MainCode) :
           /\ MainCode[i].by = "ir_logic_and"
           /\ \E v \in Uses(MainCode[i]) : v.k = "inst"


(***************************************************************************)
(* Binary operators.                                                       *)
(***************************************************************************)
\* the operand of shape `shape` on the variable with Value v is lowered at
\* position p (shapes with an instruction) and has value w
OperandAt(shape, v, p, w) ==
    CASE shape = "var" -> w = v
      [] shape = "call" ->
            /\ MainCode[p].op = "call" /\ MainCode[p].args = <<v>>
            /\ w = InstVal(MainCode[p].id, "int")
      [] shape = "sum" ->
            /\ MainCode[p] = BinaryInstruction(MainCode[p].id, "add", v, ConstInt(1), "int", "ir_add")
            /\ w = InstVal(MainCode[p].id, "int")

ShapeInsts(shape) == IF shape = "var" THEN 0 ELSE 1

\* the fragment of L OP R between the Move of `b = 1` and the Move of
\* `r = ..`: L's instructions, R's instructions, the Binary instruction of OP
\* on (value of L, value of R), and `trail` further instructions
BinFragment(op, l, r, trail) ==
    LET p == NthAssign(2)
        o == p + ShapeInsts(l) + ShapeInsts(r) + 1
        bin == MainCode[o]
    IN /\ Cardinality(AssignMoves) = 3
       /\ NthAssign(3) = o + trail + 1
       /\ bin.op = "bin" /\ bin.bop = op /\ bin.by = "ir_" \o op
       /\ bin.ty = IF op \in ArithOps THEN "int" ELSE "bool"
       /\ OperandAt(l, MainCode[NthAssign(1)].x, p + 1, bin.x)
       /\ OperandAt(r, MainCode[p].x, p + ShapeInsts(l) + 1, bin.y)
       /\ Cardinality({i \in (p + 1)..(NthAssign(3) - 1) :
                          MainCode[i].op = "bin" /\ MainCode[i].bop = op /\ MainCode[i].by = "ir_" \o op})
              = 1 + (IF op = "add" THEN Cardinality({s \in {l, r} : s = "sum"})
                                        + (IF l = "sum" /\ r = "sum" THEN 1 ELSE 0)
                     ELSE 0)
       /\ trail = 0 => MainCode[NthAssign(3)].y = InstVal(bin.id, bin.ty)
       /\ trail = 1 => /\ MainCode[o + 1] = MoveInstruction(MainCode[o + 1].x, InstVal(bin.id, "bool"), bin.by)
                       /\ MainCode[NthAssign(3)].y = MainCode[o + 1].x

\* the left operand is entered before the right one; a left operand that
\* fails leaves the right one unentered
LeftThenRight(l) ==
    LET ea == {i \in Enters("var") : M.log[i].name = IF l = "undeclared" THEN "u" ELSE "a"}
        eb == {i \in Enters("var") : M.log[i].name = "b"}
    IN IF l = "undeclared"
       THEN /\ pc = "failed"
            /\ Cardinality(ea) = 1 /\ Cardinality(eb) = 1
            /\ \A i \in ea, j \in eb : j < i
       ELSE /\ pc # "failed"
            /\ Cardinality(ea) = 2 /\ Cardinality(eb) = 2
            /\ \E i \in ea : \E j \in eb : i < j /\ \A k \in ea \cup eb : k <= j

\* the operator and operand shapes of the program when it is a BinProg
BinCase ==
    IF Len(prog.sons) = 2 /\ Len(prog.sons[2].sons[4].sons) = 6
       /\ prog.sons[2].sons[4].sons[5].op = "assign"
       /\ prog.sons[2].sons[4].sons[5].sons[2].op \in ArithOps \cup CmpOps
    THEN {c \in [op : {prog.sons[2].sons[4].sons[5].sons[2].op}, l : OperandShapes,
                 r : OperandShapes \ {"undeclared"}] : prog = BinProg(c.op, c.l, c.r)}
    ELSE {}

\* the statement of the claim: the fragment of every binary operator node,
\* the comparisons included, ends with its Binary instruction
C24_FragmentEndsWithBinary ==
    \A c \in BinCase :
        Lowered =>
            /\ LeftThenRight(c.l)
            /\ c.l # "undeclared" => BinFragment(c.op, c.l, c.r, 0)

\* C24: for +, -, *, /, % and the six comparisons the left child is lowered
\* before the right child and the fragment is the left child's instructions,
\* the right child's instructions, then exactly one Binary instruction on
\* (left value, right value), of type Int32 for the arithmetic operators; a
\* comparison's Binary instruction is followed by the Move of its result
\* into the node's Bool temporary.  When the left child fails the right child
\* is not lowered.
C24_BinaryFragment ==
    \A c \in BinCase :
        Lowered =>
            /\ LeftThenRight(c.l)
            /\ c.l # "undeclared" =>
                  BinFragment(c.op, c.l, c.r, IF c.op \in ArithOps THEN 0 ELSE 1)
            /\ (c.l # "undeclared" /\ pc = "halted") =>
                  retval = EvalBinary(c.op, IF c.l = "sum" THEN 3 ELSE 2,
                                            IF c.r = "sum" THEN 2 ELSE 1)

C24_Witness ==
    /\ prog = BinProg("sub", "call", "sum")
    /\ pc = "halted"
    /\ BinFragment("sub", "call", "sum", 0)
    /\ retval = 0


(***************************************************************************)
(* Assignment.                                                             *)
(***************************************************************************)
\* the event at which the second assignment of AssignProg is entered
SecondAssign ==
    CHOOSE i \in Enters("assign") : Cardinality({j \in Enters("assign") : j < i}) = 1

\* the right-hand side's instructions, then the Move into the target as the
\* last instruction of the fragment
MoveLast(e) ==
    LET p == NthAssign(1)
        n == IF e = "lit" THEN 0 ELSE 1
        q == NthAssign(2)
    IN /\ Cardinality(AssignMoves) = 2
       /\ q = p + n + 1
       /\ MainCode[q].x.name = "r"
       /\ MainCode[q].y = IF e = "lit" THEN ConstInt(2) ELSE InstVal(MainCode[q - 1].id, "int")
       /\ MainCode[q + 1].by = "ir_return"

\* C25: `x = e` lowers e first and resolves x second, and emits e's
\* instructions followed by one Move(x, value of e) as the last instruction
\* of the fragment; when e fails x is never resolved, and when both are in
\* error the failure is e's.
C25_RightThenLeft ==
    \A l \in AssignTargets, e \in AssignSources :
        (prog = AssignProg(l, e) /\ Lowered) =>
            LET i == SecondAssign
                bad == e \in {"undeclared", "badsum"}
            IN /\ M.log[i + 1].ev = "enter" /\ M.log[i + 1].op = AssignSource(e).op
               /\ bad => /\ pc = "failed"
                         /\ \A j \in Enters("var") : j > i => M.log[j].name # l
                         /\ M.log[FirstFailure].name = "y"
               /\ (l = "x" /\ ~bad) => pc = "failed" /\ M.log[FirstFailure].name = "x"
               /\ (l = "r" /\ ~bad) => pc # "failed" /\ MoveLast(e)

\* what holds of the emitted instructions, whatever the order of lowering
C25_MoveAfterSource ==
    \A e \in AssignSources \ {"undeclared", "badsum"} :
        (prog = AssignProg("r", e) /\ Lowered) => pc # "failed" /\ MoveLast(e)

\* the order ir_assign has: the target is resolved first, and its failure
\* leaves the right-hand side unlowered
C25_LeftThenRight ==
    \A l \in AssignTargets, e \in AssignSources :
        (prog = AssignProg(l, e) /\ Lowered) =>
            LET i == SecondAssign
            IN /\ M.log[i + 1].ev = "enter" /\ M.log[i + 1].op = "var" /\ M.log[i + 1].name = l
               /\ l = "x" => /\ pc = "failed"
                             /\ M.log[FirstFailure].name = "x"
                             /\ \A j \in Enters("var") : j > i => M.log[j].name = "x"


(***************************************************************************)
(* Logical not.                                                            *)
(***************************************************************************)
\* the comparisons of ir_logic_not in a stream
NotComparisons(code) ==
    {i \in 1..Len(code) : code[i].op = "bin" /\ code[i].by = "ir_logic_not"}

\* one comparison `operand == 0` of type Bool for every ! of the program,
\* moved into the node's result Value by the next instruction
EqualZeroEmitted ==
    /\ SumSeq([f \in Funcs |-> Cardinality(NotComparisons(CodeOf(f)))]) = CountOp(prog, "not")
    /\ \A f \in Funcs : \A i \in NotComparisons(CodeOf(f)) :
           LET code == CodeOf(f)
           IN /\ code[i] = BinaryInstruction(code[i].id, "eq", code[i].x, ConstInt(0), "bool",
                                             "ir_logic_not")
              /\ i < Len(code)
              /\ code[i + 1] = MoveInstruction(code[i + 1].x, InstVal(code[i].id, "bool"),
                                               "ir_logic_not")

\* C26: `!e` lowers to e's instructions followed by exactly one comparison of
\* e's value with constant 0 for equality, and the result Value of the node
\* has type Bool, so that no not-equal-zero comparison is made of it where it
\* is a condition or the left operand of && / ||.
C26_NotYieldsBool ==
    Succeeded =>
        /\ EqualZeroEmitted
        /\ \A f \in Funcs : \A i \in NotComparisons(CodeOf(f)) :
               LET code == CodeOf(f)
               IN /\ code[i + 1].x.ty = "bool"
                  /\ \A j \in 1..Len(code) :
                         code[j].by = "int_to_bool" /\ code[j].op = "bin" => code[j].x # code[i + 1].x

\* the comparison itself
C26_EqualZeroComparison == Succeeded => EqualZeroEmitted

\* the result Value as ir_logic_not makes it: an Int32 local, compared with 0
\* once more where it is the left operand of && / ||
C26_ResultIsInt ==
    Succeeded =>
        \A f \in Funcs : \A i \in NotComparisons(CodeOf(f)) :
            LET code == CodeOf(f)
            IN /\ code[i + 1].x.ty = "int"
               /\ (\E k \in 1..2 : prog = LogicProg(IF k = 1 THEN "and" ELSE "or", "not", 1, 1))
                      => \E j \in 1..Len(code) :
                             /\ code[j].by = "int_to_bool" /\ code[j].op = "bin"
                             /\ code[j].x = code[i + 1].x


(***************************************************************************)
(* Formal parameters.                                                      *)
(***************************************************************************)
\* the k instructions after the Entry at position e of function f are the
\* Moves of its k parameters, in order, into distinct locals of their names,
\* and the next instruction is none of them
ParamsBound(f, e) ==
    LET code == CodeOf(f)
        params == M.funcs[f].params
        k == Len(params)
    IN /\ e + k < Len(code)
       /\ \A i \in 1..k :
              /\ code[e + i] = MoveInstruction(code[e + i].x, params[i], "ir_function_formal_params")
              /\ params[i] = FormalParam(i, params[i].ty, params[i].name)
              /\ code[e + i].x.k = "local"
              /\ code[e + i].x.name = params[i].name
              /\ \A j \in 1..k : j # i => code[e + j].x # code[e + i].x
       /\ code[e + k + 1].by # "ir_function_formal_params"

\* the Values an instruction reads or writes
Operands(inst) == Uses(inst) \cup (IF inst.op = "move" THEN {inst.x} ELSE {})

\* the body never names a FormalParam: an operand with the name of a
\* parameter is the local bound to it
BodyUsesLocals(f) ==
    LET code == CodeOf(f)
        bound == {code[i].x : i \in {j \in 1..Len(code) : code[j].by = "ir_function_formal_params"}}
        names == {M.funcs[f].params[i].name : i \in 1..Len(M.funcs[f].params)}
    IN \A i \in 1..Len(code) :
           code[i].by # "ir_function_formal_params" =>
               \A v \in Operands(code[i]) :
                   /\ v.k # "param"
                   /\ v.name \in names => v \in bound

\* the parameters the definitions of the compilation unit declare
DeclaredParams(name) ==
    {[i \in 1..Len(prog.sons[d].sons[3].sons) |-> prog.sons[d].sons[3].sons[i].sons[2].name] :
        d \in {j \in 1..Len(prog.sons) : prog.sons[j].op = "func_def"
                                          /\ prog.sons[j].sons[2].name = name}}

\* C27: in the stream of a function with k formal parameters the k
\* instructions directly after Entry are Moves, in parameter order, of the
\* i-th FormalParam into a fresh local declared under the parameter's name;
\* they precede the body, and the body reads and writes these locals, never
\* a FormalParam.
C27_ParamsBoundAfterEntry ==
    Succeeded =>
        \A f \in Funcs :
            /\ \A e \in 1..Len(CodeOf(f)) : CodeOf(f)[e].op = "entry" => ParamsBound(f, e)
            /\ BodyUsesLocals(f)
            /\ \A ps \in DeclaredParams(M.funcs[f].name) :
                   ps # <<>> => ps = [i \in 1..Len(M.funcs[f].params) |-> M.funcs[f].params[i].name]
            /\ CodeOf(f) # <<>> => CodeOf(f)[1].op = "entry"

C27_Witness ==
    /\ prog = ParamProg(1, 2)
    /\ pc = "halted"
    /\ retval = 3
    /\ Len(M.funcs[findFunction(M, "f")].params) = 2
    /\ ParamsBound(findFunction(M, "f"), 1)


(***************************************************************************)
(* Scope frames and block structure.                                       *)
(***************************************************************************)
\* for every event of the log the enter event of the node it happens in (0
\* outside every node): the parent of the node for an enter event, the node
\* itself for a return event
RECURSIVE OpenNodes(_, _, _)
OpenNodes(i, open, acc) ==
    IF i > Len(M.log) \/ Len(acc) # i - 1 THEN acc
    ELSE IF M.log[i].ev = "enter"
         THEN OpenNodes(i + 1, <<i>> \o open,
                        Append(acc, IF open = <<>> THEN 0 ELSE Head(open)))
         ELSE OpenNodes(i + 1, Tail(open), Append(acc, Head(open)))

Parents == OpenNodes(1, <<>>, <<>>)

\* frames pushed between the entry of a node and the entry of its children:
\* one by a function definition, whose body block pushes none, one by every
\* other block
FramesPushed(op) == IF op \in {"func_def", "block"} THEN 1 ELSE 0

\* C28: during a successful lowering a function definition pushes one scope
\* frame and its top-level block none, every other block pushes one frame on
\* entry and pops it on exit, no other node changes the depth, and every node
\* returns at the depth it was entered at; a name declared in a nested block
\* is not resolved after the block, its use fails the lowering.
C28_FramesFollowBlocks ==
    /\ Succeeded =>
          LET parent == Parents
          IN \A j \in 1..Len(M.log) :
                 /\ (M.log[j].ev = "enter" /\ parent[j] # 0) =>
                        M.log[j].ctx0.depth
                           = M.log[parent[j]].ctx0.depth + FramesPushed(M.log[parent[j]].op)
                 /\ M.log[j].ev = "return" =>
                        /\ M.log[j].ctx.depth = M.log[j].ctx0.depth
                        /\ M.log[j].ctx0.depth = M.log[parent[j]].ctx0.depth
    /\ (prog = UnresolvedProg("afterblock") /\ Lowered) =>
          /\ pc = "failed"
          /\ M.log[FirstFailure].op = "var" /\ M.log[FirstFailure].name = "x"
          /\ \E i \in Returns("block") : i < FirstFailure /\ M.log[i].ok

\* a declaration has been lowered inside a nested block, one frame deeper
\* than the block, which is itself one frame deeper than its function
C28_Witness ==
    /\ prog = ShadowProg(1, 2)
    /\ pc = "ok"
    /\ LET parent == Parents
       IN \E j \in Enters("decl_stmt") :
              /\ parent[j] # 0 /\ M.log[parent[j]].op = "block"
              /\ M.log[j].ctx0.depth = M.log[parent[j]].ctx0.depth + 1
              /\ parent[parent[j]] # 0 /\ M.log[parent[parent[j]]].op = "func_def"
              /\ M.log[parent[j]].ctx0.depth = M.log[parent[parent[j]]].ctx0.depth + 1

(***************************************************************************)
(* Jump targets and label placement.                                       *)
(***************************************************************************)
\* positions in a stream where label l is placed
Placed(code, l) == {i \in 1..Len(code) : code[i].op = "label" /\ code[i].id = l.id}

\* the labels an instruction jumps to
Targets(inst) ==
    CASE inst.op = "goto" -> {inst.t1}
      [] inst.op = "cgoto" -> {inst.t1, inst.t2}
      [] OTHER -> {}

JumpHandlers ==
    {"ir_if", "ir_if_else", "ir_while", "ir_break", "ir_continue", "ir_return",
     "ir_logic_and", "ir_logic_or"}

\* C29: in every function stream of a successful run every label that a Goto
\* or either branch of a CondGoto targets is placed exactly once, as a Label
\* instruction of that same stream, and no Label instruction occurs twice;
\* the jumps are those of if, if-else, while, break, continue, return, && and
\* ||.
C29_TargetsPlacedOnce ==
    Succeeded =>
        \A f \in Funcs :
            LET code == CodeOf(f)
            IN /\ \A p \in 1..Len(code) :
                      /\ code[p].op \in {"goto", "cgoto"} => code[p].by \in JumpHandlers
                      /\ \A l \in Targets(code[p]) :
                             l.k = "label" /\ Cardinality(Placed(code, l)) = 1
               /\ \A i \in 1..Len(code) :
                      code[i].op = "label" => Placed(code, code[i]) = {i}

\* a successfully lowered stream holds jumps of every handler that creates
\* jumps, each to a label placed in it
C29_Witness ==
    /\ pc = "ok"
    /\ \E f \in Funcs :
           /\ \E p \in 1..Len(CodeOf(f)) :
                  /\ CodeOf(f)[p].op = "cgoto" /\ CodeOf(f)[p].by = "ir_while"
                  /\ Placed(CodeOf(f), CodeOf(f)[p].t1) # {}
                  /\ Placed(CodeOf(f), CodeOf(f)[p].t2) # {}
           /\ \E p \in 1..Len(CodeOf(f)) :
                  /\ CodeOf(f)[p].op = "goto" /\ CodeOf(f)[p].by = "ir_break"
                  /\ Placed(CodeOf(f), CodeOf(f)[p].t1) # {}


(***************************************************************************)
(* The comparison parked by int_to_bool.                                   *)
(***************************************************************************)
LogicHandlers == {"ir_logic_and", "ir_logic_or"}

\* the positions <<function, index>> of all streams
Positions == UNION {{<<f, p>> : p \in 1..Len(CodeOf(f))} : f \in Funcs}

\* positions of the comparisons int_to_bool created, over all streams
BoolChecks ==
    {fp \in Positions :
        CodeOf(fp[1])[fp[2]].by = "int_to_bool" /\ CodeOf(fp[1])[fp[2]].op = "bin"}

\* the comparison at p of a stream is followed by its Move into a Bool local
\* and then by the CondGoto of && or || that branches on that local
CheckBeforeBranch(code, p) ==
    /\ p + 2 <= Len(code)
    /\ code[p].bop = "ne" /\ code[p].y = ConstInt(0) /\ code[p].ty = "bool"
    /\ code[p + 1].op = "move" /\ code[p + 1].by = "int_to_bool"
    /\ code[p + 1].y = InstVal(code[p].id, "bool")
    /\ code[p + 1].x.ty = "bool"
    /\ code[p + 2].op = "cgoto" /\ code[p + 2].by \in LogicHandlers
    /\ code[p + 2].x = code[p + 1].x

\* C30: the slot in which int_to_bool parks its comparison and Move is empty
\* whenever a lowering routine is entered or returns, and in a successful run
\* every comparison int_to_bool created stands exactly once in the streams,
\* with its Move directly before the CondGoto of the && or || that asked for
\* it; an && or || whose left operand is Bool branches on that operand with
\* no comparison added.
C30_CheckTakenAtOnce ==
    /\ \A i \in 1..Len(M.log) : ~M.log[i].pending
    /\ Succeeded =>
          /\ \A fp \in BoolChecks :
                 /\ CheckBeforeBranch(CodeOf(fp[1]), fp[2])
                 /\ \A fq \in BoolChecks :
                        CodeOf(fq[1])[fq[2]].id = CodeOf(fp[1])[fp[2]].id => fq = fp
          /\ \A f \in Funcs :
                 \A p \in 1..Len(CodeOf(f)) :
                     LET code == CodeOf(f)
                     IN /\ (code[p].by = "int_to_bool" /\ code[p].op # "bin") =>
                               /\ code[p].op = "move" /\ p > 1
                               /\ code[p - 1].by = "int_to_bool" /\ code[p - 1].op = "bin"
                        /\ (code[p].op = "cgoto" /\ code[p].by \in LogicHandlers) =>
                               /\ code[p].x.ty = "bool"
                               /\ p > 1
                               /\ code[p - 1].by = "int_to_bool"
                                     => code[p - 1].op = "move" /\ code[p - 1].x = code[p].x
          /\ Cardinality(BoolChecks)
                = Cardinality({fp \in Positions :
                      /\ fp[2] > 1
                      /\ CodeOf(fp[1])[fp[2]].op = "cgoto"
                      /\ CodeOf(fp[1])[fp[2]].by \in LogicHandlers
                      /\ CodeOf(fp[1])[fp[2] - 1].by = "int_to_bool"})

\* (a && b) || (a < 1 && b) has been lowered: two comparisons for the two
\* Int left operands a and (a && b), none for the Bool operand a < 1
C30_Witness ==
    /\ prog = NestProg("and", "or", "and", "var", "cmp", 1)
    /\ pc = "ok"
    /\ Cardinality(BoolChecks) = 2
    /\ Cardinality({p \in 1..Len(MainCode) :
                       MainCode[p].op = "cgoto" /\ MainCode[p].by \in LogicHandlers}) = 3

====
